---- MODULE Spec2Model ----
(***************************************************************************)
(* A model of the Collection<K, V> class of src/collection.ts and of the   *)
(* Option<T> class of src/option.ts.                                       *)
(*                                                                         *)
(* A Collection wraps one native Map (innerMap).  The Map is modelled as   *)
(* the sequence of its entries <<key, value>> in iteration order, which    *)
(* for a native Map is the order of insertion.  A JavaScript value is an   *)
(* integer; the value `undefined` is the integer Undefined.  Where clone()  *)
(* and toJSON() are called, a value is a record of its kind, and an object *)
(* lives in a heap.                                                        *)
(***************************************************************************)
EXTENDS Integers, Sequences, FiniteSets, TLC

\* ------------------------------------------------------------------ bounds
\* The keys and the defined values of the collection the calls are made on,
\* the length of the iterable it is built from, and the keys of the two
\* operands of the set operations.
NKeys == 3
NVals == 2
MaxFrom == 2
NSetKeys == 2
\* The Option objects alive at once: the receiver, one the caller holds on
\* to, and the one a call returns.
NOptions == 3
\* The keys of the collection that is cloned.
NCloneKeys == 2

\* ------------------------------------------------------------- value domain
\* The JavaScript value `undefined`.
Undefined == 0

Keys == 1..NKeys
SetKeys == 1..NSetKeys
\* Every value a Collection<K, V | undefined> can hold.
Values == {Undefined} \cup (1..NVals)

VARIABLES
    innerMap,   \* the receiver's Map, as its sequence of entries
    other,      \* the Map of the second operand of diff/symDiff/intersect/union,
                \* and of the collection clone() returned
    last,       \* the last call made: its name, arguments and what it returned
    heap,       \* the objects stored as values: address -> the object's field
    gen,        \* the generator obtained from iter()
    opts,       \* the Option objects: identity -> discriminant and payload
    kept        \* the returned Option the caller holds on to, and what it was;
                \* whether the caller holds the clone

\* What the calls on one collection of plain values leave alone.
aux == <<heap, gen, opts, kept>>

vars == <<innerMap, other, last, heap, gen, opts, kept>>

\* ------------------------------------------------------------------ Option
\* option.ts: new Option(value, OptionType.Some)
Some(value) == [discriminant |-> "Some", value |-> value]

\* option.ts: new Option(undefined as never, OptionType.None)
None == [discriminant |-> "None", value |-> Undefined]

isNone_by_payload(o) == o.value = Undefined

isNone(o) == o.discriminant = "None"

isSome(o) == o.discriminant = "Some"

\* The outcome of a call that may throw.
Return(v) == [threw |-> FALSE, value |-> v, error |-> ""]

Throw(msg) == [threw |-> TRUE, value |-> Undefined, error |-> msg]

expect_unchecked(o, msg) == Return(o.value)

\* option.ts expect: throws Error(msg) on a None, else returns the payload.
expect(o, msg) == IF isNone(o) THEN Throw(msg) ELSE Return(o.value)

\* The source's message quotes unwrap() and None in backquotes.
unwrap(o) == expect(o, "called unwrap() on a None")

\* ------------------------------------------- Option: the in-place mutators
\* An Option object is the record of its two fields.  A method that mutates
\* the receiver gives the receiver's fields after the call (self) and what it
\* returns (ret).  A returned Option is a newly constructed object (Fresh) or
\* the receiver object itself (This); given tells an argument from the two.
Fresh(o) == [same |-> FALSE, given |-> FALSE, opt |-> o]

This(o) == [same |-> TRUE, given |-> FALSE, opt |-> o]

\* A returned Option that is the Option object the call was given.
Given(o) == [same |-> FALSE, given |-> TRUE, opt |-> o]

\* A caller's callback () => T, as data: the value it returns.
Thunks == Values

CallThunk(callback) == callback

Option_insert(o, value) ==
    LET self == [discriminant |-> "Some", value |-> value]
    IN  [self |-> self, ret |-> self.value]

Option_getOrInsert_overwrites(o, value) ==
    [self |-> [discriminant |-> "Some", value |-> value], ret |-> value]

Option_getOrInsert(o, value) ==
    LET self == [discriminant |-> "Some",
                 value |-> IF isSome(o) THEN o.value ELSE value]
    IN  [self |-> self, ret |-> self.value]

\* calls counts the invocations of the callback.
Option_getOrInsertWith(o, callback) ==
    LET self == [discriminant |-> "Some",
                 value |-> IF isSome(o) THEN o.value ELSE CallThunk(callback)]
    IN  [self |-> self, ret |-> self.value,
         calls |-> IF isSome(o) THEN 0 ELSE 1]

Option_replace_after_write(o, value) ==
    [self |-> [discriminant |-> "Some", value |-> value],
     ret |-> Fresh(Some(value))]

Option_replace(o, value) ==
    LET old == IF isSome(o) THEN Some(o.value) ELSE None
    IN  [self |-> [discriminant |-> "Some", value |-> value],
         ret |-> Fresh(old)]

take_returns_this(o) ==
    LET self == [discriminant |-> "None", value |-> Undefined]
    IN  [self |-> self, ret |-> This(self)]

take(o) ==
    LET oldValue == IF isSome(o) THEN Some(o.value) ELSE None
    IN  [self |-> [discriminant |-> "None", value |-> Undefined],
         ret |-> Fresh(oldValue)]

\* ---------------------------------------------- Option: map and andThen
\* A caller's callback (value) => U, as data: the identity, the next defined
\* value (the first one after the last and after undefined), or undefined
\* whatever it is given.
MapFns == {"id", "next", "undefined"}

NextValue(value) == IF value >= NVals THEN 1 ELSE value + 1

Apply(callback, value) ==
    IF callback = "id" THEN value
    ELSE IF callback = "next" THEN NextValue(value)
    ELSE Undefined

Option_map_eager(o, callback) == Fresh(Some(Apply(callback, o.value)))

\* map returns the receiver itself when it is a None.
Option_map(o, callback) ==
    IF isSome(o) THEN Fresh(Some(Apply(callback, o.value))) ELSE This(o)

\* A caller's callback (value) => Option<U>, as data.  The plain ones wrap
\* their argument, give None, wrap a defined argument and give None for
\* undefined, or wrap the next value; Compose(f, g) is the closure
\* (x) => f(x).andThen(g).
ThenKinds == {"some", "none", "defined", "next"}

ThenFn(kind) == [kind |-> kind, f |-> "", g |-> ""]

Compose(f, g) == [kind |-> "compose", f |-> f, g |-> g]

RECURSIVE andThen(_, _)
RECURSIVE ApplyToOption(_, _)
ApplyToOption(callback, value) ==
    IF callback.kind = "some" THEN Some(value)
    ELSE IF callback.kind = "none" THEN None
    ELSE IF callback.kind = "defined"
    THEN (IF value = Undefined THEN None ELSE Some(value))
    ELSE IF callback.kind = "next" THEN Some(NextValue(value))
    ELSE andThen(ApplyToOption(ThenFn(callback.f), value), ThenFn(callback.g))

andThen_inverted(o, callback) ==
    IF isNone(o) THEN ApplyToOption(callback, o.value) ELSE None

\* andThen returns what the callback returns, or a new None.
andThen(o, callback) ==
    IF isSome(o) THEN ApplyToOption(callback, o.value) ELSE None

\* -------------------------------------------------------------- native Map
\* The position of key in the Map's entry list, 0 when the key is absent.
MapIndex(m, key) ==
    IF \E i \in 1..Len(m) : m[i][1] = key
    THEN CHOOSE i \in 1..Len(m) : m[i][1] = key
    ELSE 0

\* Map.prototype.has
MapHas(m, key) == MapIndex(m, key) # 0

\* Map.prototype.get: undefined when the key is absent.
MapGet(m, key) == IF MapHas(m, key) THEN m[MapIndex(m, key)][2] ELSE Undefined

\* Map.prototype.set: a present key keeps its position, a new key goes last.
MapSet(m, key, value) ==
    IF MapHas(m, key)
    THEN [m EXCEPT ![MapIndex(m, key)] = <<key, value>>]
    ELSE Append(m, <<key, value>>)

\* Map.prototype.delete: the Map without the key, and whether it was there.
MapDelete(m, key) ==
    [map |-> SelectSeq(m, LAMBDA e : e[1] # key), ret |-> MapHas(m, key)]

\* ------------------------------------------------- Collection: the basics
\* new Collection(): private innerMap = new Map<K, V>()
NewCollection == << >>

size(m) == Len(m)

entries(m) == m

keys(m) == [i \in 1..Len(m) |-> m[i][1]]

values(m) == [i \in 1..Len(m) |-> m[i][2]]

\* *[Symbol.iterator]: yield* this.entries()
iterator(m) == entries(m)

has(m, key) == MapHas(m, key)

get(m, key) ==
    LET value == MapGet(m, key)
    IN  IF value = Undefined THEN None ELSE Some(value)

set_appends(m, key, value) == Append(m, <<key, value>>)

set_moves_last(m, key, value) == Append(MapDelete(m, key).map, <<key, value>>)

set(m, key, value) == MapSet(m, key, value)

RECURSIVE FromLoop(_, _, _)
FromLoop(iterable, i, result) ==
    IF i > Len(iterable) THEN result
    ELSE FromLoop(iterable, i + 1, set(result, iterable[i][1], iterable[i][2]))

from(iterable) == FromLoop(iterable, 1, NewCollection)

clear(m) == << >>

delete_keeps(m, key) == [map |-> m, ret |-> MapHas(m, key)]

delete(m, key) == MapDelete(m, key)

insert(m, key, value) == [map |-> set(m, key, value), ret |-> value]

getOrInsert(m, key, value) ==
    IF MapHas(m, key)
    THEN [map |-> m, ret |-> MapGet(m, key)]
    ELSE [map |-> set(m, key, value), ret |-> value]

\* A caller's callback (key, collection) => V, as data: a constant function,
\* the collection's size, or the key, the last two cut to the value domain.
Callbacks ==
    [kind : {"const"}, v : Values] \cup [kind : {"size", "key"}, v : {Undefined}]

Clip(n) == IF n > NVals THEN NVals ELSE n

CallCallback(cb, key, m) ==
    IF cb.kind = "const" THEN cb.v
    ELSE IF cb.kind = "size" THEN Clip(size(m))
    ELSE Clip(key)

getOrInsertWith(m, key, cb) ==
    IF MapHas(m, key)
    THEN [map |-> m, ret |-> MapGet(m, key), calls |-> << >>]
    ELSE LET defaultValue == CallCallback(cb, key, m)
         IN  [map |-> set(m, key, defaultValue), ret |-> defaultValue,
              calls |-> << <<key, m>> >>]

replace(m, key, value) ==
    LET oldValue == get(m, key)
    IN  [map |-> set(m, key, value), ret |-> oldValue]

\* ------------------------------------------- Collection: set operations
\* A caller's resolver (value, otherValue, key) => V, as data: the receiver's
\* value, the operand's value, the operand's value for key 1 and the
\* receiver's for every other key, or undefined whatever it is given.
Resolvers == {"value", "otherValue", "byKey", "undefined"}

resolve(r, value, otherValue, key) ==
    IF r = "value" THEN value
    ELSE IF r = "otherValue" THEN otherValue
    ELSE IF r = "byKey" THEN (IF key = 1 THEN otherValue ELSE value)
    ELSE Undefined

\* The outcome of a call that returns a collection or throws; calls lists the
\* resolver invocations <<value, otherValue, key>> it made, in order.
Done(coll, calls) == [threw |-> FALSE, coll |-> coll, calls |-> calls, error |-> ""]

Thrown(msg, calls) ==
    [threw |-> TRUE, coll |-> NewCollection, calls |-> calls, error |-> msg]

\* for (const [key, value] of from.entries())
\*   if (!against.has(key)) result.set(key, value)
RECURSIVE DiffLoop(_, _, _, _)
DiffLoop(source, against, i, result) ==
    IF i > Len(source) THEN result
    ELSE LET key == source[i][1]
             value == source[i][2]
         IN  DiffLoop(source, against, i + 1,
                      IF ~has(against, key) THEN set(result, key, value)
                      ELSE result)

diff_keeps_common(self, operand) ==
    SelectSeq(self, LAMBDA e : has(operand, e[1]))

diff(self, operand) == DiffLoop(self, operand, 1, NewCollection)

symDiff_one_sided(self, operand) == DiffLoop(self, operand, 1, NewCollection)

symDiff(self, operand) ==
    DiffLoop(operand, self, 1, DiffLoop(self, operand, 1, NewCollection))

RECURSIVE IntersectLoop(_, _, _, _, _, _)
IntersectLoop(self, operand, r, i, result, calls) ==
    IF i > Len(self) THEN Done(result, calls)
    ELSE LET key == self[i][1]
             value == self[i][2]
         IN  IF has(operand, key)
             THEN LET otherValue == unwrap(get(operand, key))
                  IN  IF otherValue.threw
                      THEN Thrown(otherValue.error, calls)
                      ELSE IntersectLoop(self, operand, r, i + 1,
                               set(result, key,
                                   resolve(r, value, otherValue.value, key)),
                               Append(calls, <<value, otherValue.value, key>>))
             ELSE IntersectLoop(self, operand, r, i + 1, result, calls)

intersect(self, operand, r) ==
    IntersectLoop(self, operand, r, 1, NewCollection, << >>)

\* if (result.has(key) && result.get(key).unwrap() !== value)
\*   result.set(key, resolve(result.get(key).unwrap(), value, key))
\* else result.set(key, value)
RECURSIVE UnionLoop(_, _, _, _, _)
UnionLoop(operand, r, i, result, calls) ==
    IF i > Len(operand) THEN Done(result, calls)
    ELSE LET key == operand[i][1]
             value == operand[i][2]
             existing == unwrap(get(result, key))
         IN  IF ~has(result, key)
             THEN UnionLoop(operand, r, i + 1, set(result, key, value), calls)
             ELSE IF existing.threw
             THEN Thrown(existing.error, calls)
             ELSE IF existing.value # value
             THEN UnionLoop(operand, r, i + 1,
                      set(result, key, resolve(r, existing.value, value, key)),
                      Append(calls, <<existing.value, value, key>>))
             ELSE UnionLoop(operand, r, i + 1, set(result, key, value), calls)

union(self, operand, r) == UnionLoop(operand, r, 1, from(entries(self)), << >>)

\* ------------------------------------------------------ the mutating calls
\* No object, no generator and no Option object is in use.
AuxInit ==
    /\ heap = << >>
    /\ gen = << >>
    /\ opts = << >>
    /\ kept = << >>

\* The caller makes one call at a time on the collection and holds what it
\* learnt from it in `last`: the call's name and arguments, what it returned,
\* the callback invocations it made, and the entries before the call.
NoKey == 0

Call(op, key, value, ret, calls, pre) ==
    [op |-> op, key |-> key, value |-> value, ret |-> ret,
     calls |-> calls, pre |-> pre]

NoCall == Call("none", NoKey, Undefined, Undefined, << >>, << >>)

\* Every iterable of at most MaxFrom pairs, keys repeated or not.
Iterables ==
    UNION {[1..n -> Keys \X Values] : n \in 0..MaxFrom}

\* The collection is built by Collection.from(iterable); the empty iterable
\* gives what new Collection() gives.
Init ==
    \E iterable \in Iterables :
        /\ innerMap = from(iterable)
        /\ other = NewCollection
        /\ last = Call("from", NoKey, Undefined, Undefined, << >>, iterable)
        /\ AuxInit

CallSet ==
    /\ last.op = "none"
    /\ \E key \in Keys, value \in Values :
        /\ innerMap' = set(innerMap, key, value)
        /\ last' = Call("set", key, value, Undefined, << >>, innerMap)
        /\ UNCHANGED <<other, aux>>

CallInsert ==
    /\ last.op = "none"
    /\ \E key \in Keys, value \in Values :
        LET r == insert(innerMap, key, value)
        IN  /\ innerMap' = r.map
            /\ last' = Call("insert", key, value, r.ret, << >>, innerMap)
            /\ UNCHANGED <<other, aux>>

CallReplace ==
    /\ last.op = "none"
    /\ \E key \in Keys, value \in Values :
        LET r == replace(innerMap, key, value)
        IN  /\ innerMap' = r.map
            /\ last' = Call("replace", key, value, r.ret, << >>, innerMap)
            /\ UNCHANGED <<other, aux>>

CallGetOrInsert ==
    /\ last.op = "none"
    /\ \E key \in Keys, value \in Values :
        LET r == getOrInsert(innerMap, key, value)
        IN  /\ innerMap' = r.map
            /\ last' = Call("getOrInsert", key, value, r.ret, << >>, innerMap)
            /\ UNCHANGED <<other, aux>>

\* last.value is what the callback would return for (key, collection).
CallGetOrInsertWith ==
    /\ last.op = "none"
    /\ \E key \in Keys, cb \in Callbacks :
        LET r == getOrInsertWith(innerMap, key, cb)
        IN  /\ innerMap' = r.map
            /\ last' = Call("getOrInsertWith", key,
                            CallCallback(cb, key, innerMap), r.ret, r.calls,
                            innerMap)
            /\ UNCHANGED <<other, aux>>

CallDelete ==
    /\ last.op = "none"
    /\ \E key \in Keys :
        LET r == delete(innerMap, key)
        IN  /\ innerMap' = r.map
            /\ last' = Call("delete", key, Undefined, r.ret, << >>, innerMap)
            /\ UNCHANGED <<other, aux>>

CallClear ==
    /\ last.op = "none"
    /\ innerMap' = clear(innerMap)
    /\ last' = Call("clear", NoKey, Undefined, Undefined, << >>, innerMap)
    /\ UNCHANGED <<other, aux>>

\* The caller is done with the last call's result and goes on.
Continue ==
    /\ last.op # "none"
    /\ last' = NoCall
    /\ UNCHANGED <<innerMap, other, aux>>

Next ==
    \/ CallSet
    \/ CallInsert
    \/ CallReplace
    \/ CallGetOrInsert
    \/ CallGetOrInsertWith
    \/ CallDelete
    \/ CallClear
    \/ Continue

Spec == Init /\ [][Next]_vars

\* ------------------------------------------------- the set-operation calls
\* Two collections, each built by Collection.from, and one call of diff,
\* symDiff, intersect or union on them.
SetCall(op, r, out) ==
    [op |-> op, resolve |-> r, threw |-> out.threw, ret |-> out.coll,
     calls |-> out.calls, error |-> out.error]

NoSetCall == SetCall("none", "value", Done(NewCollection, << >>))

\* Every iterable over the operands' keys that names no key more than
\* NSetKeys times in all.
SetIterables ==
    UNION {[1..n -> SetKeys \X Values] : n \in 0..NSetKeys}

Operands == {from(iterable) : iterable \in SetIterables}

InitSetOps ==
    /\ innerMap \in Operands
    /\ other \in Operands
    /\ last = NoSetCall
    /\ AuxInit

CallDiff ==
    /\ last.op = "none"
    /\ last' = SetCall("diff", "value", Done(diff(innerMap, other), << >>))
    /\ UNCHANGED <<innerMap, other, aux>>

CallSymDiff ==
    /\ last.op = "none"
    /\ last' = SetCall("symDiff", "value", Done(symDiff(innerMap, other), << >>))
    /\ UNCHANGED <<innerMap, other, aux>>

CallIntersect ==
    /\ last.op = "none"
    /\ \E r \in Resolvers :
          last' = SetCall("intersect", r, intersect(innerMap, other, r))
    /\ UNCHANGED <<innerMap, other, aux>>

CallUnion ==
    /\ last.op = "none"
    /\ \E r \in Resolvers :
          last' = SetCall("union", r, union(innerMap, other, r))
    /\ UNCHANGED <<innerMap, other, aux>>

NextSetOps ==
    \/ CallDiff
    \/ CallSymDiff
    \/ CallIntersect
    \/ CallUnion

SpecSetOps == InitSetOps /\ [][NextSetOps]_vars

\* ------------------------------------------ vocabulary of the properties
KeySet(m) == {m[i][1] : i \in 1..Len(m)}

EntrySet(m) == {m[i] : i \in 1..Len(m)}

DistinctKeys(m) == \A i, j \in 1..Len(m) : m[i][1] = m[j][1] => i = j

\* key1 is enumerated before key2.
Before(m, key1, key2) ==
    \E i, j \in 1..Len(m) : i < j /\ m[i][1] = key1 /\ m[j][1] = key2

\* The entries of m under keys other than key.
Others(m, key) == {e \in EntrySet(m) : e[1] # key}

\* Where key first occurs in a sequence of pairs.
FirstIndex(s, key) ==
    CHOOSE i \in 1..Len(s) : s[i][1] = key /\ \A j \in 1..(i - 1) : s[j][1] # key

Writes == {"set", "insert", "replace", "getOrInsert", "getOrInsertWith"}

WasPresent == last.key \in KeySet(last.pre)

\* ---------------------------------------------------------------- C1 .. C6
\* C1: immediately after set(k, v), get(k) returns Some(v), for every key k
\* and every value v the collection can store.
C1_SetThenGet ==
    last.op = "set" => get(innerMap, last.key) = Some(last.value)

\* C2: each key has at most one value and size is the number of distinct keys
\* present; a write to an absent key raises size by exactly 1, a write to a
\* present key leaves it unchanged, a successful delete lowers it by exactly 1,
\* clear sets it to 0, and from() yields one entry per distinct key given.
C2_SizeCountsKeys ==
    /\ DistinctKeys(innerMap)
    /\ size(innerMap) = Cardinality(KeySet(innerMap))
    /\ last.op \in Writes =>
          size(innerMap) = size(last.pre) + (IF WasPresent THEN 0 ELSE 1)
    /\ last.op = "delete" =>
          size(innerMap) = size(last.pre) - (IF last.ret THEN 1 ELSE 0)
    /\ last.op = "clear" => size(innerMap) = 0
    /\ last.op = "from" => size(innerMap) = Cardinality(KeySet(last.pre))

\* C2's case: a value is overwritten in a collection of two entries.
C2_Witness ==
    /\ last.op = "set"
    /\ WasPresent
    /\ size(innerMap) = 2
    /\ innerMap # last.pre

\* C3: delete(k) returns true iff k was present; afterwards has(k) is false and
\* get(k) is None, every other entry keeps its key, value and relative order,
\* and a second delete(k) returns false.
C3_Delete ==
    last.op = "delete" =>
        /\ last.ret = WasPresent
        /\ ~has(innerMap, last.key)
        /\ last.key \notin KeySet(innerMap)
        /\ get(innerMap, last.key) = None
        /\ EntrySet(innerMap) = Others(last.pre, last.key)
        /\ size(innerMap) = Cardinality(Others(last.pre, last.key))
        /\ \A k1, k2 \in KeySet(innerMap) :
              Before(innerMap, k1, k2) <=> Before(last.pre, k1, k2)
        /\ delete(innerMap, last.key).ret = FALSE
        /\ delete(innerMap, last.key).map = innerMap

\* C3's case: the middle one of three entries is deleted.
C3_Witness ==
    /\ last.op = "delete"
    /\ last.ret = TRUE
    /\ size(last.pre) = 3
    /\ last.pre[2][1] = last.key

\* C4: getOrInsert(k, v) and getOrInsertWith(k, f) return the stored value of a
\* present k, leaving the collection unchanged and f uncalled; for an absent k
\* they store v (the result of exactly one call f(k, collection)) under k and
\* return it, so that get(k) afterwards is Some of the returned value.
C4_GetOrInsert ==
    last.op \in {"getOrInsert", "getOrInsertWith"} =>
        IF WasPresent
        THEN /\ <<last.key, last.ret>> \in EntrySet(last.pre)
             /\ innerMap = last.pre
             /\ last.calls = << >>
        ELSE /\ last.ret = last.value
             /\ last.op = "getOrInsertWith" =>
                    last.calls = << <<last.key, last.pre>> >>
             /\ <<last.key, last.ret>> \in EntrySet(innerMap)
             /\ get(innerMap, last.key) = Some(last.ret)

\* C5: replace(k, v) returns Some(prior value) when k was present and None
\* when it was absent, and writes v in both cases, so that get(k) afterwards
\* is Some(v); no other key is affected.
C5_Replace ==
    last.op = "replace" =>
        /\ last.ret = (IF WasPresent THEN Some(MapGet(last.pre, last.key)) ELSE None)
        /\ get(innerMap, last.key) = Some(last.value)
        /\ Others(innerMap, last.key) = Others(last.pre, last.key)

\* C6: keys(), values(), entries() and for-of iteration enumerate the present
\* entries in the order in which each key was inserted since it was last
\* absent: a write to a present key leaves every position as it was, a write
\* to an absent key puts it last, a delete keeps the others' order, and from()
\* orders the keys by their first occurrence in the iterable.
C6_InsertionOrder ==
    /\ iterator(innerMap) = entries(innerMap)
    /\ \A i \in 1..size(innerMap) :
          entries(innerMap)[i] = <<keys(innerMap)[i], values(innerMap)[i]>>
    /\ last.op \in Writes =>
          keys(innerMap) =
              (IF WasPresent THEN keys(last.pre)
               ELSE Append(keys(last.pre), last.key))
    /\ last.op = "delete" =>
          keys(innerMap) = SelectSeq(keys(last.pre), LAMBDA k : k # last.key)
    /\ last.op = "clear" => keys(innerMap) = << >>
    /\ last.op = "from" =>
          /\ KeySet(innerMap) = KeySet(last.pre)
          /\ \A k1, k2 \in KeySet(innerMap) :
                Before(innerMap, k1, k2) <=>
                    FirstIndex(last.pre, k1) < FirstIndex(last.pre, k2)

\* C6's case: the first of several keys is overwritten with another value.
C6_Witness ==
    /\ last.op \in Writes
    /\ size(last.pre) >= 2
    /\ last.pre[1][1] = last.key
    /\ innerMap # last.pre

\* --------------------------------------------------------------- C7 .. C10
\* The keys both operands hold, and those among them whose two values differ.
Common == KeySet(innerMap) \cap KeySet(other)

Differing == {k \in Common : MapGet(innerMap, k) # MapGet(other, k)}

\* C7: a.diff(b) holds exactly the entries (k, a's value for k) of the keys k
\* present in a and absent from b, in a's order; no key of b is in the result.
C7_Diff ==
    last.op = "diff" =>
        /\ ~last.threw
        /\ EntrySet(last.ret) =
              {e \in EntrySet(innerMap) : e[1] \notin KeySet(other)}
        /\ DistinctKeys(last.ret)
        /\ \A k1, k2 \in KeySet(last.ret) :
              Before(last.ret, k1, k2) <=> Before(innerMap, k1, k2)
        /\ KeySet(last.ret) \cap KeySet(other) = {}

\* C7's case: the operands share a key and the receiver has one more.
C7_Witness ==
    /\ last.op = "diff"
    /\ Common # {}
    /\ size(last.ret) >= 1

\* C8: the keys of a.symDiff(b) are those of a.diff(b) and of b.diff(a)
\* together, the two diffs share no key, and every key of the result is a key
\* of exactly one operand and carries that operand's value.
C8_SymDiff ==
    last.op = "symDiff" =>
        /\ ~last.threw
        /\ KeySet(last.ret) =
              KeySet(diff(innerMap, other)) \cup KeySet(diff(other, innerMap))
        /\ KeySet(diff(innerMap, other)) \cap KeySet(diff(other, innerMap)) = {}
        /\ KeySet(last.ret) =
              (KeySet(innerMap) \cup KeySet(other)) \ Common
        /\ DistinctKeys(last.ret)
        /\ \A e \in EntrySet(last.ret) :
              IF e[1] \in KeySet(innerMap)
              THEN e \in EntrySet(innerMap)
              ELSE e \in EntrySet(other)

\* C8's case: the result holds an entry of each operand.
C8_Witness ==
    /\ last.op = "symDiff"
    /\ size(last.ret) = 2
    /\ last.ret[1] \in EntrySet(innerMap)
    /\ last.ret[2] \in EntrySet(other)

\* C9: for every resolver r, a.intersect(b, r) has exactly the keys present in
\* both a and b, each with the value r(a's value, b's value, key); with the
\* resolver (x, _, _) => x the values are those of a.
C9_Intersect ==
    last.op = "intersect" =>
        /\ ~last.threw
        /\ KeySet(last.ret) = Common
        /\ \A k \in Common :
              <<k, resolve(last.resolve, MapGet(innerMap, k), MapGet(other, k), k)>>
                  \in EntrySet(last.ret)
        /\ last.resolve = "value" => EntrySet(last.ret) \subseteq EntrySet(innerMap)

\* C10: for every resolver r, a.union(b, r) starts from a copy of a and takes
\* b's entries in order: a key already there whose value differs from the
\* incoming one gets r(existing, incoming, key), a key not yet there gets the
\* incoming value, the resolver is called for no other key, and the result's
\* keys are exactly those of a together with those of b.
C10_Union ==
    last.op = "union" =>
        /\ ~last.threw
        /\ KeySet(last.ret) = KeySet(innerMap) \cup KeySet(other)
        /\ \A k \in KeySet(innerMap) \ KeySet(other) :
              <<k, MapGet(innerMap, k)>> \in EntrySet(last.ret)
        /\ \A k \in KeySet(other) \ Differing :
              <<k, MapGet(other, k)>> \in EntrySet(last.ret)
        /\ \A k \in Differing :
              <<k, resolve(last.resolve, MapGet(innerMap, k), MapGet(other, k), k)>>
                  \in EntrySet(last.ret)
        /\ last.calls =
              SelectSeq([i \in 1..Len(other) |->
                            <<MapGet(innerMap, other[i][1]), other[i][2], other[i][1]>>],
                        LAMBDA c : c[3] \in Differing)

\* ------------------------------------------------------ the Option calls
\* One Option object, the receiver, built by Some(v) or None(), and the calls
\* made on it.  Every Option object has an identity; a call that returns an
\* Option returns the identity of a new object or of the receiver.  The
\* caller may hold on to the last returned Option while it goes on calling.
OptionIds == 1..NOptions

Receiver == 1

NoRef == 0

\* The fields of an identity no object has.
Free == [discriminant |-> "Free", value |-> Undefined]

NoKept == [ref |-> NoRef, was |-> Free, op |-> "none"]

OptCall(op, arg, ret, ref, calls, pre) ==
    [op |-> op, arg |-> arg, ret |-> ret, ref |-> ref, calls |-> calls,
     pre |-> pre]

NoOptCall == OptCall("none", Undefined, Undefined, NoRef, 0, Free)

Messages == {"foo", "bar"}

\* The identity a newly constructed Option gets.
NewRef == CHOOSE id \in OptionIds :
              /\ id \notin {Receiver, kept.ref}
              /\ \A smaller \in OptionIds \ {Receiver, kept.ref} : id <= smaller

\* The identity of a returned Option, and the objects after a call that left
\* the receiver with the fields self and returned ret.
RefOf(ret) == IF ret.same THEN Receiver ELSE NewRef

Objects(self, ret) ==
    IF ret.same THEN [opts EXCEPT ![Receiver] = self]
    ELSE [opts EXCEPT ![Receiver] = self, ![NewRef] = ret.opt]

InitOption ==
    /\ innerMap = NewCollection
    /\ other = NewCollection
    /\ heap = << >>
    /\ gen = << >>
    /\ kept = NoKept
    /\ \/ \E value \in Values :
             /\ opts = [id \in OptionIds |->
                           IF id = Receiver THEN Some(value) ELSE Free]
             /\ last = OptCall("Some", value, Undefined, Receiver, 0, Free)
       \/ /\ opts = [id \in OptionIds |-> IF id = Receiver THEN None ELSE Free]
          /\ last = OptCall("None", Undefined, Undefined, Receiver, 0, Free)

OptionFrame == UNCHANGED <<innerMap, other, heap, gen>>

CallOptionInsert ==
    /\ last.op = "none"
    /\ \E value \in Values :
          LET r == Option_insert(opts[Receiver], value)
          IN  /\ opts' = [opts EXCEPT ![Receiver] = r.self]
              /\ last' = OptCall("insert", value, r.ret, NoRef, 0, opts[Receiver])
    /\ UNCHANGED kept
    /\ OptionFrame

CallOptionGetOrInsert ==
    /\ last.op = "none"
    /\ \E value \in Values :
          LET r == Option_getOrInsert(opts[Receiver], value)
          IN  /\ opts' = [opts EXCEPT ![Receiver] = r.self]
              /\ last' = OptCall("getOrInsert", value, r.ret, NoRef, 0,
                                 opts[Receiver])
    /\ UNCHANGED kept
    /\ OptionFrame

\* last.arg is the value the callback returns when it is called.
CallOptionGetOrInsertWith ==
    /\ last.op = "none"
    /\ \E callback \in Thunks :
          LET r == Option_getOrInsertWith(opts[Receiver], callback)
          IN  /\ opts' = [opts EXCEPT ![Receiver] = r.self]
              /\ last' = OptCall("getOrInsertWith", CallThunk(callback), r.ret,
                                 NoRef, r.calls, opts[Receiver])
    /\ UNCHANGED kept
    /\ OptionFrame

CallOptionReplace ==
    /\ last.op = "none"
    /\ \E value \in Values :
          LET r == Option_replace(opts[Receiver], value)
          IN  /\ opts' = Objects(r.self, r.ret)
              /\ last' = OptCall("replace", value, Undefined, RefOf(r.ret), 0,
                                 opts[Receiver])
    /\ UNCHANGED kept
    /\ OptionFrame

CallTake ==
    /\ last.op = "none"
    /\ LET r == take(opts[Receiver])
       IN  /\ opts' = Objects(r.self, r.ret)
           /\ last' = OptCall("take", Undefined, Undefined, RefOf(r.ret), 0,
                              opts[Receiver])
    /\ UNCHANGED kept
    /\ OptionFrame

\* The Options the caller can call: the receiver and the one it holds on to.
Held == {Receiver, kept.ref} \ {NoRef}

\* last.ref is the Option unwrap() or expect() was called on.
CallUnwrap ==
    /\ last.op = "none"
    /\ \E on \in Held :
          last' = OptCall("unwrap", Undefined, unwrap(opts[on]), on, 0, opts[on])
    /\ UNCHANGED <<opts, kept>>
    /\ OptionFrame

CallExpect ==
    /\ last.op = "none"
    /\ \E on \in Held, msg \in Messages :
          last' = OptCall("expect", msg, expect(opts[on], msg), on, 0, opts[on])
    /\ UNCHANGED <<opts, kept>>
    /\ OptionFrame

CallOptionMap ==
    /\ last.op = "none"
    /\ \E callback \in MapFns :
          LET r == Option_map(opts[Receiver], callback)
          IN  /\ opts' = Objects(opts[Receiver], r)
              /\ last' = OptCall("map", callback, Undefined, RefOf(r), 0,
                                 opts[Receiver])
    /\ UNCHANGED kept
    /\ OptionFrame

\* Both sides of the chaining law on the receiver: o.andThen(f).andThen(g)
\* and o.andThen((x) => f(x).andThen(g)).
CallAndThen ==
    /\ last.op = "none"
    /\ \E f \in ThenKinds, g \in ThenKinds :
          last' = OptCall("andThen", <<f, g>>,
                     [left |-> andThen(andThen(opts[Receiver], ThenFn(f)), ThenFn(g)),
                      right |-> andThen(opts[Receiver], Compose(f, g))],
                     NoRef, 0, opts[Receiver])
    /\ UNCHANGED <<opts, kept>>
    /\ OptionFrame

\* The identities no longer referred to once the caller holds on to keep.
Release(keep) ==
    [id \in OptionIds |-> IF id \in {Receiver, keep} THEN opts[id] ELSE Free]

\* The caller goes on and drops the Option the last call returned.
ContinueOption ==
    /\ last.op # "none"
    /\ last' = NoOptCall
    /\ opts' = Release(kept.ref)
    /\ UNCHANGED kept
    /\ OptionFrame

\* The caller goes on and holds on to the Option the last call returned.
KeepOption ==
    /\ last.op # "none"
    /\ last.op \in {"take", "replace", "map"}
    /\ last' = NoOptCall
    /\ kept' = [ref |-> last.ref, was |-> opts[last.ref], op |-> last.op]
    /\ opts' = Release(last.ref)
    /\ OptionFrame

NextOption ==
    \/ CallOptionInsert
    \/ CallOptionGetOrInsert
    \/ CallOptionGetOrInsertWith
    \/ CallOptionReplace
    \/ CallTake
    \/ CallUnwrap
    \/ CallExpect
    \/ CallOptionMap
    \/ CallAndThen
    \/ ContinueOption
    \/ KeepOption

SpecOption == InitOption /\ [][NextOption]_vars

\* ------------------------------------------------------- the iter calls
\* *iter(): for (const entry of this.entries()) yield Some(entry);
\*          return None()
\* The generator the caller got from iter().  index is the number of entries
\* of the collection that lie before the position of the Map iterator the
\* loop runs on, which is live: it sees what is set and deleted while the
\* generator is suspended.  at and out are what the caller remembers, the
\* entries when iter() was called and the results of next() so far; the
\* caller stops remembering once it changes the collection (changed).
NoGen == [state |-> "none", index |-> 0, at |-> << >>, out |-> << >>,
          changed |-> FALSE]

NewGen(m) == [state |-> "suspended", index |-> 0, at |-> entries(m),
              out |-> << >>, changed |-> FALSE]

\* An iterator result { value, done }.
IterResult(value, done) == [value |-> value, done |-> done]

iterNext_yields_sentinel(m, g) ==
    IF g.state = "closed"
    THEN [gen |-> g, result |-> IterResult(Undefined, TRUE)]
    ELSE IF g.index < Len(entries(m))
    THEN [gen |-> [g EXCEPT !.index = g.index + 1],
          result |-> IterResult(Some(entries(m)[g.index + 1]), FALSE)]
    ELSE [gen |-> [g EXCEPT !.state = "closed"],
          result |-> IterResult(None, FALSE)]

\* One next() on the generator: the loop takes the next entry and yields it
\* wrapped, or ends and the generator returns None(); a generator that has
\* returned gives { value: undefined, done: true }.
iterNext(m, g) ==
    IF g.state = "closed"
    THEN [gen |-> g, result |-> IterResult(Undefined, TRUE)]
    ELSE IF g.index < Len(entries(m))
    THEN [gen |-> [g EXCEPT !.index = g.index + 1],
          result |-> IterResult(Some(entries(m)[g.index + 1]), FALSE)]
    ELSE [gen |-> [g EXCEPT !.state = "closed"],
          result |-> IterResult(None, TRUE)]

\* The generator after the collection changed from m to changedMap by a set
\* or a delete of key: an entry deleted before the position moves the
\* position back with it.
Changed(g, m, key, changedMap) ==
    IF g.state = "none" THEN g
    ELSE [g EXCEPT !.changed = TRUE, !.at = << >>, !.out = << >>,
                   !.index = IF /\ Len(changedMap) < Len(m)
                                /\ MapIndex(m, key) <= g.index
                             THEN g.index - 1 ELSE g.index]

InitIter ==
    /\ \E iterable \in Iterables : innerMap = from(iterable)
    /\ other = NewCollection
    /\ last = NoCall
    /\ heap = << >>
    /\ opts = << >>
    /\ kept = << >>
    /\ gen = NoGen

IterFrame == UNCHANGED <<other, last, heap, opts, kept>>

CallSetIterating ==
    /\ \E key \in Keys, value \in Values :
          /\ set(innerMap, key, value) # innerMap
          /\ innerMap' = set(innerMap, key, value)
          /\ gen' = Changed(gen, innerMap, key, innerMap')
    /\ IterFrame

CallDeleteIterating ==
    /\ \E key \in Keys :
          /\ has(innerMap, key)
          /\ innerMap' = delete(innerMap, key).map
          /\ gen' = Changed(gen, innerMap, key, innerMap')
    /\ IterFrame

CallIter ==
    /\ gen.state = "none"
    /\ gen' = NewGen(innerMap)
    /\ UNCHANGED innerMap
    /\ IterFrame

\* The caller calls next() until it has seen two results with done = true.
CallNext ==
    /\ gen.state # "none"
    /\ Len(gen.out) < Len(gen.at) + 2
    /\ LET r == iterNext(innerMap, gen)
       IN  gen' = [r.gen EXCEPT !.out = IF gen.changed THEN << >>
                                        ELSE Append(gen.out, r.result)]
    /\ UNCHANGED innerMap
    /\ IterFrame

NextIter ==
    \/ CallSetIterating
    \/ CallDeleteIterating
    \/ CallIter
    \/ CallNext

SpecIter == InitIter /\ [][NextIter]_vars

\* ------------------------------------------------------ clone and toJSON
\* The values of a collection that is cloned or serialized: a number, an
\* object { bar: n } that lives in the heap under an address, a function and
\* a bigint.  structuredClone copies everything but a function, on which it
\* throws; JSON.stringify writes everything but a bigint, on which it throws.
CloneKeys == 1..NCloneKeys

\* Each collection holds at most NCloneKeys objects, and a call makes one.
Addrs == 1..(2 * NCloneKeys + 1)

Contents == 1..NVals

Unused == 0

Num(n) == [kind |-> "number", at |-> n]

Obj(addr) == [kind |-> "object", at |-> addr]

Fn == [kind |-> "function", at |-> 0]

Big == [kind |-> "bigint", at |-> 0]

\* result.ts: new Result(value, ResultType.Ok) and (value, ResultType.Err)
Ok(value) ==
    [discriminant |-> "Ok", variant0 |-> Undefined, variant1 |-> value]

Err(value) ==
    [discriminant |-> "Err", variant0 |-> value, variant1 |-> Undefined]

\* The addresses of the objects a collection holds.
Refs(m) == {m[i][2].at : i \in {j \in 1..Len(m) : m[j][2].kind = "object"}}

\* The address a new object gets.
Alloc(h) == CHOOSE addr \in Addrs :
                /\ h[addr] = Unused
                /\ \A lower \in Addrs : h[lower] = Unused => addr <= lower

\* structuredClone(value): the copy and the heap it lives in, or the throw.
structuredClone(value, h) ==
    IF value.kind = "function"
    THEN [threw |-> TRUE, value |-> value, heap |-> h, error |-> "DataCloneError"]
    ELSE IF value.kind = "object"
    THEN [threw |-> FALSE, value |-> Obj(Alloc(h)),
          heap |-> [h EXCEPT ![Alloc(h)] = h[value.at]], error |-> ""]
    ELSE [threw |-> FALSE, value |-> value, heap |-> h, error |-> ""]

sameReference(value, h) ==
    [threw |-> FALSE, value |-> value, heap |-> h, error |-> ""]

\* The value a clone stores: result.set(key, structuredClone(value)).
cloneValue(value, h) == structuredClone(value, h)

\* for (const [key, value] of this.entries())
\*   result.set(key, structuredClone(value))
RECURSIVE CloneLoop(_, _, _, _)
CloneLoop(m, i, result, h) ==
    IF i > Len(entries(m))
    THEN [threw |-> FALSE, coll |-> result, heap |-> h, error |-> ""]
    ELSE LET copy == cloneValue(entries(m)[i][2], h)
         IN  IF copy.threw
             THEN [threw |-> TRUE, coll |-> result, heap |-> h,
                   error |-> copy.error]
             ELSE CloneLoop(m, i + 1, set(result, entries(m)[i][1], copy.value),
                            copy.heap)

\* What a call gave: a Result, or raised, when an exception left the call.
Returned(result, h) == [raised |-> FALSE, result |-> result, heap |-> h]

Raised(error, h) == [raised |-> TRUE, result |-> Err(error), heap |-> h]

clone_uncaught(m, h) ==
    LET r == CloneLoop(m, 1, NewCollection, h)
    IN  IF r.threw THEN Raised(r.error, h) ELSE Returned(Ok(r.coll), r.heap)

\* clone: the loop in a try, Ok(result), and Err(error) in the catch.
clone(m, h) ==
    LET r == CloneLoop(m, 1, NewCollection, h)
    IN  IF r.threw THEN Returned(Err(r.error), h)
        ELSE Returned(Ok(r.coll), r.heap)

\* JSON.stringify, its text as a sequence of tokens.
Digits == <<"0", "1", "2", "3", "4", "5", "6", "7", "8", "9">>

NumberToken(n) == Digits[n + 1]

\* An element of an array: a function is written null, a bigint throws.
stringifyValue(value, h) ==
    IF value.kind = "bigint"
    THEN [threw |-> TRUE, text |-> << >>, error |-> "TypeError"]
    ELSE IF value.kind = "function"
    THEN [threw |-> FALSE, text |-> <<"null">>, error |-> ""]
    ELSE IF value.kind = "object"
    THEN [threw |-> FALSE,
          text |-> <<"{", "\"bar\"", ":", NumberToken(h[value.at]), "}">>,
          error |-> ""]
    ELSE [threw |-> FALSE, text |-> <<NumberToken(value.at)>>, error |-> ""]

\* The array of the [key, value] pairs, from the i-th on.
RECURSIVE StringifyLoop(_, _, _, _)
StringifyLoop(array, i, text, h) ==
    IF i > Len(array)
    THEN [threw |-> FALSE, text |-> text \o <<"]">>, error |-> ""]
    ELSE LET element == stringifyValue(array[i][2], h)
         IN  IF element.threw THEN element
             ELSE StringifyLoop(array, i + 1,
                      text \o (IF i > 1 THEN <<",">> ELSE << >>)
                           \o <<"[", NumberToken(array[i][1]), ",">>
                           \o element.text \o <<"]">>,
                      h)

stringify(array, h) == StringifyLoop(array, 1, <<"[">>, h)

\* toJSON: Ok(JSON.stringify(Array.from(this.entries()))) in a try, and
\* Err(error) in the catch.
toJSON(m, h) ==
    LET r == stringify(entries(m), h)
    IN  IF r.threw THEN Returned(Err(r.error), h) ELSE Returned(Ok(r.text), h)

\* ------------------------------------------------ the clone and toJSON calls
\* a is the collection (innerMap) and b what a.clone().unwrap() gave (other),
\* once the caller holds it (kept).  The caller sets, deletes and clears on
\* either, and writes the field of an object stored in either.
\* What a reader sees of a collection: its keys in order, and for each the
\* value, an object by its content.
Deref(value, h) ==
    [kind |-> value.kind,
     is |-> IF value.kind = "object" THEN h[value.at] ELSE value.at]

View(m, h) == [i \in 1..Len(m) |-> <<m[i][1], Deref(m[i][2], h)>>]

\* What the caller sees of what a call gave: whether it raised, and of the
\* Result it returned the discriminant, the error of an Err and the text of
\* an Ok of toJSON.
Seen(raised, discriminant, error, text) ==
    [raised |-> raised, discriminant |-> discriminant, error |-> error,
     text |-> text]

NoResult == Seen(FALSE, "none", "", << >>)

SeenOf(r, text) ==
    Seen(r.raised, r.result.discriminant,
         IF r.result.discriminant = "Err" THEN r.result.variant0 ELSE "",
         IF r.result.discriminant = "Ok" THEN text ELSE << >>)

CloneCall(op, on, ret) == [op |-> op, on |-> on, ret |-> ret]

NoCloneCall == CloneCall("none", "a", NoResult)

Stored(on) == IF on = "a" THEN innerMap ELSE other

OtherOf(on) == IF on = "a" THEN "b" ELSE "a"

Targets == IF kept = "b" THEN {"a", "b"} ELSE {"a"}

\* The values a caller stores, each with the heap it lives in: a number, a
\* function, a bigint, a new object, or an object the collection holds.
NewValues(m, h) ==
    {[value |-> Num(n), heap |-> h] : n \in Contents}
      \cup {[value |-> Fn, heap |-> h], [value |-> Big, heap |-> h]}
      \cup {[value |-> Obj(Alloc(h)), heap |-> [h EXCEPT ![Alloc(h)] = n]] :
               n \in Contents}
      \cup {[value |-> Obj(addr), heap |-> h] : addr \in Refs(m)}

\* An address is no more than the identity of its object: the objects are
\* numbered in the order in which a and then b hold them.
RefSeq(a, b) ==
    LET held == SelectSeq(a \o b, LAMBDA e : e[2].kind = "object")
    IN  [i \in 1..Len(held) |-> held[i][2].at]

\* The addresses of refs, each once, in the order of their first places.
Distinct(refs) ==
    LET upTo[i \in 0..Len(refs)] ==
            IF i = 0 THEN << >>
            ELSE IF \E j \in 1..Len(upTo[i - 1]) : upTo[i - 1][j] = refs[i]
                 THEN upTo[i - 1]
                 ELSE Append(upTo[i - 1], refs[i])
    IN  upTo[Len(refs)]

Rank(order, addr) == CHOOSE i \in 1..Len(order) : order[i] = addr

Renumber(m, order) ==
    [i \in 1..Len(m) |->
        IF m[i][2].kind = "object"
        THEN <<m[i][1], Obj(Rank(order, m[i][2].at))>>
        ELSE m[i]]

\* The state after a call that left a and b as given in heap h.
After(a, b, h) ==
    LET order == Distinct(RefSeq(a, b))
    IN  /\ innerMap' = Renumber(a, order)
        /\ other' = Renumber(b, order)
        /\ heap' = [addr \in Addrs |->
                       IF addr <= Len(order) THEN h[order[addr]] ELSE Unused]

\* The state after a call on the collection on that left it as m.
AfterOn(on, m, h) ==
    IF on = "a" THEN After(m, other, h) ELSE After(innerMap, m, h)

InitClone ==
    /\ innerMap = NewCollection
    /\ other = NewCollection
    /\ last = NoCloneCall
    /\ heap = [addr \in Addrs |-> Unused]
    /\ kept = "none"
    /\ gen = << >>
    /\ opts = << >>

CloneFrame == UNCHANGED <<gen, opts>>

CallSetCloned ==
    /\ last.op = "none"
    /\ \E on \in Targets, key \in CloneKeys :
          \E new \in NewValues(Stored(on), heap) :
              /\ AfterOn(on, set(Stored(on), key, new.value), new.heap)
              /\ last' = CloneCall("set", on, NoResult)
    /\ UNCHANGED kept
    /\ CloneFrame

CallDeleteCloned ==
    /\ last.op = "none"
    /\ \E on \in Targets, key \in CloneKeys :
          /\ AfterOn(on, delete(Stored(on), key).map, heap)
          /\ last' = CloneCall("delete", on, NoResult)
    /\ UNCHANGED kept
    /\ CloneFrame

CallClearCloned ==
    /\ last.op = "none"
    /\ \E on \in Targets :
          /\ AfterOn(on, clear(Stored(on)), heap)
          /\ last' = CloneCall("clear", on, NoResult)
    /\ UNCHANGED kept
    /\ CloneFrame

\* foo.bar = n on an object foo that a collection holds.
MutateStored ==
    /\ last.op = "none"
    /\ \E on \in Targets, addr \in Addrs, n \in Contents :
          /\ addr \in Refs(Stored(on))
          /\ heap[addr] # n
          /\ AfterOn(on, Stored(on), [heap EXCEPT ![addr] = n])
          /\ last' = CloneCall("mutate", on, NoResult)
    /\ UNCHANGED kept
    /\ CloneFrame

\* b = a.clone().unwrap(): the caller holds b when clone() gave an Ok.
CallClone ==
    /\ last.op = "none"
    /\ kept = "none"
    /\ LET r == clone(innerMap, heap)
           got == ~r.raised /\ r.result.discriminant = "Ok"
       IN  /\ After(innerMap, IF got THEN r.result.variant1 ELSE other, r.heap)
           /\ kept' = IF got THEN "b" ELSE kept
           /\ last' = CloneCall("clone", "a", SeenOf(r, << >>))
    /\ CloneFrame

CallToJSON ==
    /\ last.op = "none"
    /\ \E on \in Targets :
          LET r == toJSON(Stored(on), heap)
          IN  /\ AfterOn(on, Stored(on), r.heap)
              /\ last' = CloneCall("toJSON", on, SeenOf(r, r.result.variant1))
    /\ UNCHANGED kept
    /\ CloneFrame

\* The caller is done with the last call's result and goes on.
ContinueCloned ==
    /\ last.op # "none"
    /\ last' = NoCloneCall
    /\ UNCHANGED <<innerMap, other, heap, kept>>
    /\ CloneFrame

NextClone ==
    \/ CallSetCloned
    \/ CallDeleteCloned
    \/ CallClearCloned
    \/ MutateStored
    \/ CallClone
    \/ CallToJSON
    \/ ContinueCloned

SpecClone == InitClone /\ [][NextClone]_vars

\* ------------------------------------------------------------------ Result
\* A Result is the record of its three fields (Ok and Err build it, above).
isErr(r) == r.discriminant = "Err"

isOk(r) == r.discriminant = "Ok"

Result_expect_unchecked(r, msg) == Return(r.variant1)

\* result.ts expect: throws Error(msg) on an Err, else returns variant1.
Result_expect(r, msg) == IF isErr(r) THEN Throw(msg) ELSE Return(r.variant1)

\* result.ts expectErr: throws Error(msg) on an Ok, else returns variant0.
Result_expectErr(r, msg) == IF isOk(r) THEN Throw(msg) ELSE Return(r.variant0)

\* The source's messages quote the method and the variant in backquotes.
Result_unwrap(r) == Result_expect(r, "called unwrap() on an Err")

Result_unwrapErr(r) == Result_expectErr(r, "called unwrapErr() on an Ok")

\* A call of a combinator: what it returned (ret) and, for each call it made
\* of the caller's callback, in order, the tuple of the arguments (calls).
Called(ret, calls) == [ret |-> ret, calls |-> calls]

Result_map_keeps_variant1(r, callback) ==
    IF isOk(r) THEN Called(Ok(Apply(callback, r.variant1)), <<<<r.variant1>>>>)
    ELSE Called(Err(r.variant1), << >>)

Result_map(r, callback) ==
    IF isOk(r) THEN Called(Ok(Apply(callback, r.variant1)), <<<<r.variant1>>>>)
    ELSE Called(Err(r.variant0), << >>)

Result_mapErr(r, callback) ==
    IF isErr(r) THEN Called(Err(Apply(callback, r.variant0)), <<<<r.variant0>>>>)
    ELSE Called(Ok(r.variant1), << >>)

\* A caller's callback (value) => Result<U, E>, as data: it wraps its
\* argument in an Ok or in an Err.
ResultFns == {"ok", "err"}

ApplyToResult(callback, value) ==
    IF callback = "ok" THEN Ok(value) ELSE Err(value)

Result_andThen(r, callback) ==
    IF isErr(r) THEN Called(r, << >>)
    ELSE Called(ApplyToResult(callback, r.variant1), <<<<r.variant1>>>>)

Result_orElse(r, callback) ==
    IF isOk(r) THEN Called(r, << >>)
    ELSE Called(ApplyToResult(callback, r.variant0), <<<<r.variant0>>>>)

\* A caller's predicate (value) => boolean, as data: true, false, or
\* whether its argument is defined.
Predicates == {"always", "never", "defined"}

Test(predicate, value) ==
    IF predicate = "always" THEN TRUE
    ELSE IF predicate = "never" THEN FALSE
    ELSE value # Undefined

Result_inspect(r) ==
    IF isOk(r) THEN Called(r, <<<<r.variant1>>>>) ELSE Called(r, << >>)

\* this.isErr() && callback(this.variant0)
Result_inspectErr(r) ==
    IF isErr(r) THEN Called(r, <<<<r.variant0>>>>) ELSE Called(r, << >>)

Result_isOkAnd(r, predicate) ==
    IF isOk(r) THEN Called(Test(predicate, r.variant1), <<<<r.variant1>>>>)
    ELSE Called(FALSE, << >>)

Result_isErrAnd(r, predicate) ==
    IF isErr(r) THEN Called(Test(predicate, r.variant0), <<<<r.variant0>>>>)
    ELSE Called(FALSE, << >>)

\* ------------------------------------------------- Option: the combinators
\* The calls map and andThen make of their callback.
Option_map_calls(o) == IF isSome(o) THEN <<<<o.value>>>> ELSE << >>

andThen_calls(o) == IF isSome(o) THEN <<<<o.value>>>> ELSE << >>

\* and returns the Option it is given, or a new None.
Option_and(o, option) == IF isSome(o) THEN Given(option) ELSE Fresh(None)

\* or returns the receiver itself, or the Option it is given.
Option_or(o, option) == IF isSome(o) THEN This(o) ELSE Given(option)

\* xor returns the Option it is given, the receiver itself, or a new None.
xor(o, option) ==
    IF isNone(o) THEN Given(option)
    ELSE IF isNone(option) THEN This(o) ELSE Fresh(None)

\* zip returns a new Some of the pair of the two payloads, or a new None.
zip(o, option) ==
    IF isSome(o) /\ isSome(option) THEN Fresh(Some(<<o.value, option.value>>))
    ELSE Fresh(None)

\* A caller's callback (value, otherValue) => R, as data: its first or its
\* second argument.
ZipFns == {"first", "second"}

ApplyZip(callback, value, otherValue) ==
    IF callback = "first" THEN value ELSE otherValue

zipWith_receiver_only(o, option, callback) ==
    IF isSome(o)
    THEN Called(Fresh(Some(ApplyZip(callback, o.value, option.value))),
                <<<<o.value, option.value>>>>)
    ELSE Called(Fresh(None), << >>)

zipWith(o, option, callback) ==
    IF isSome(o) /\ isSome(option)
    THEN Called(Fresh(Some(ApplyZip(callback, o.value, option.value))),
                <<<<o.value, option.value>>>>)
    ELSE Called(Fresh(None), << >>)

\* filter returns the receiver itself, or a new None.
Option_filter(o, predicate) ==
    IF isSome(o)
    THEN Called(IF Test(predicate, o.value) THEN This(o) ELSE Fresh(None),
                <<<<o.value>>>>)
    ELSE Called(Fresh(None), << >>)

Option_inspect(o) ==
    IF isSome(o) THEN Called(This(o), <<<<o.value>>>>) ELSE Called(This(o), << >>)

isSomeAnd(o, predicate) ==
    IF isSome(o) THEN Called(Test(predicate, o.value), <<<<o.value>>>>)
    ELSE Called(FALSE, << >>)

\* A caller's callback () => Option<T>, as data: the Option it builds.
OptionThunks == {None} \cup {Some(value) : value \in Values}

\* orElse returns the receiver itself, or the Option the callback built.
Option_orElse(o, callback) ==
    IF isSome(o) THEN Called(This(o), << >>)
    ELSE Called(Fresh(callback), <<<< >>>>)

unwrapOrElse(o, callback) ==
    IF isSome(o) THEN Called(o.value, << >>)
    ELSE Called(CallThunk(callback), <<<< >>>>)

okOrElse(o, callback) ==
    IF isSome(o) THEN Called(Ok(o.value), << >>)
    ELSE Called(Err(CallThunk(callback)), <<<< >>>>)

\* ----------------------------------------------------- transpose, teaCall
Option_transpose_drops_err(o) ==
    IF isNone(o) THEN Ok(This(o))
    ELSE IF isOk(o.value) THEN Ok(Fresh(Some(Result_unwrap(o.value).value)))
    ELSE Ok(Fresh(None))

\* Option<Result<U, E>> to Result<Option<U>, E>: a None goes into the Ok as
\* the receiver itself.
Option_transpose(o) ==
    IF isNone(o) THEN Ok(This(o))
    ELSE IF isOk(o.value) THEN Ok(Fresh(Some(Result_unwrap(o.value).value)))
    ELSE Err(Result_unwrapErr(o.value).value)

\* A Result whose Ok holds a returned Option, as the Result of that Option.
Placed(r) == IF isOk(r) THEN Ok(r.variant1.opt) ELSE r

\* Result<Option<U>, E> to Option<Result<U, E>>: Some(this) on an Err.
Result_transpose(r) ==
    IF isErr(r) THEN Some(r)
    ELSE IF isSome(Result_unwrap(r).value)
         THEN Some(Ok(unwrap(Result_unwrap(r).value).value))
         ELSE None

\* A caller's function (...args) => T, as data: it returns its first
\* argument, or throws it; without arguments that is undefined.
TeaFns == {"first", "throwFirst"}

First(args) == IF Len(args) = 0 THEN Undefined ELSE args[1]

CallFn(callbackFn, args) ==
    IF callbackFn = "first" THEN Return(First(args))
    ELSE [threw |-> TRUE, value |-> First(args), error |-> ""]

\* What teaCall gave: a Result, or raised, when an exception left it.
Tea(raised, result, calls) ==
    [raised |-> raised, result |-> result, calls |-> calls]

teaCall_uncaught(callbackFn, args) ==
    LET result == CallFn(callbackFn, args)
    IN  IF result.threw THEN Tea(TRUE, Err(result.value), <<args>>)
        ELSE Tea(FALSE, Ok(result.value), <<args>>)

\* teaCall: the call in a try, Ok(result), and Err(error) in the catch.
teaCall(callbackFn, args) ==
    LET result == CallFn(callbackFn, args)
    IN  IF result.threw THEN Tea(FALSE, Err(result.value), <<args>>)
        ELSE Tea(FALSE, Ok(result.value), <<args>>)

\* ------------------------------------------- the Result and combinator calls
\* One receiver, an Option or a Result, which no call here changes, and one
\* call at a time on it.  shape tells what the receiver is: an Option<T>, a
\* Result<T, E>, an Option<Result<U, E>> or a Result<Option<U>, E>.
Shaped(shape, self) == [shape |-> shape, self |-> self]

ResCall(op, arg, ret, calls, raised) ==
    [op |-> op, arg |-> arg, ret |-> ret, calls |-> calls, raised |-> raised]

NoResCall == ResCall("none", Undefined, Undefined, << >>, FALSE)

InitResult ==
    /\ innerMap = NewCollection
    /\ other = NewCollection
    /\ heap = << >>
    /\ gen = << >>
    /\ kept = << >>
    /\ last = NoResCall
    /\ \/ opts = Shaped("option", None)
       \/ \E value \in Values :
             \/ opts = Shaped("option", Some(value))
             \/ opts = Shaped("result", Ok(value))
             \/ opts = Shaped("result", Err(value))
             \/ opts = Shaped("optionOfResult", Some(Ok(value)))
             \/ opts = Shaped("optionOfResult", Some(Err(value)))
             \/ opts = Shaped("resultOfOption", Ok(Some(value)))
             \/ opts = Shaped("resultOfOption", Err(value))
       \/ opts = Shaped("optionOfResult", None)
       \/ opts = Shaped("resultOfOption", Ok(None))

\* The caller is between two calls and the receiver is of the shape.
OnShape(shape) ==
    /\ last.op = "none"
    /\ opts.shape = shape
    /\ UNCHANGED <<innerMap, other, heap, gen, opts, kept>>

CallResultMap ==
    /\ OnShape("result")
    /\ \E callback \in MapFns :
          LET r == Result_map(opts.self, callback)
          IN  last' = ResCall("map", callback, r.ret, r.calls, FALSE)

CallResultMapErr ==
    /\ OnShape("result")
    /\ \E callback \in MapFns :
          LET r == Result_mapErr(opts.self, callback)
          IN  last' = ResCall("mapErr", callback, r.ret, r.calls, FALSE)

CallResultUnwrap ==
    /\ OnShape("result")
    /\ LET r == Result_unwrap(opts.self)
       IN  last' = ResCall("unwrap", Undefined, r, << >>, FALSE)

CallResultUnwrapErr ==
    /\ OnShape("result")
    /\ LET r == Result_unwrapErr(opts.self)
       IN  last' = ResCall("unwrapErr", Undefined, r, << >>, FALSE)

CallResultExpect ==
    /\ OnShape("result")
    /\ \E msg \in Messages :
          LET r == Result_expect(opts.self, msg)
          IN  last' = ResCall("expect", msg, r, << >>, FALSE)

CallResultExpectErr ==
    /\ OnShape("result")
    /\ \E msg \in Messages :
          LET r == Result_expectErr(opts.self, msg)
          IN  last' = ResCall("expectErr", msg, r, << >>, FALSE)

CallResultAndThen ==
    /\ OnShape("result")
    /\ \E callback \in ResultFns :
          LET r == Result_andThen(opts.self, callback)
          IN  last' = ResCall("andThen", callback, r.ret, r.calls, FALSE)

CallResultOrElse ==
    /\ OnShape("result")
    /\ \E callback \in ResultFns :
          LET r == Result_orElse(opts.self, callback)
          IN  last' = ResCall("orElse", callback, r.ret, r.calls, FALSE)

CallResultInspect ==
    /\ OnShape("result")
    /\ LET r == Result_inspect(opts.self)
       IN  last' = ResCall("inspect", Undefined, r.ret, r.calls, FALSE)

CallResultInspectErr ==
    /\ OnShape("result")
    /\ LET r == Result_inspectErr(opts.self)
       IN  last' = ResCall("inspectErr", Undefined, r.ret, r.calls, FALSE)

CallIsOkAnd ==
    /\ OnShape("result")
    /\ \E predicate \in Predicates :
          LET r == Result_isOkAnd(opts.self, predicate)
          IN  last' = ResCall("isOkAnd", predicate, r.ret, r.calls, FALSE)

CallIsErrAnd ==
    /\ OnShape("result")
    /\ \E predicate \in Predicates :
          LET r == Result_isErrAnd(opts.self, predicate)
          IN  last' = ResCall("isErrAnd", predicate, r.ret, r.calls, FALSE)

CallMapOnce ==
    /\ OnShape("option")
    /\ \E callback \in MapFns :
          LET r == Option_map(opts.self, callback)
          IN  last' = ResCall("Option.map", callback, r.opt, Option_map_calls(opts.self), FALSE)

CallAndThenOnce ==
    /\ OnShape("option")
    /\ \E callback \in ThenKinds :
          LET r == andThen(opts.self, ThenFn(callback))
          IN  last' = ResCall("Option.andThen", callback, r, andThen_calls(opts.self), FALSE)

CallFilter ==
    /\ OnShape("option")
    /\ \E predicate \in Predicates :
          LET r == Option_filter(opts.self, predicate)
          IN  last' = ResCall("filter", predicate, r.ret.opt, r.calls, FALSE)

CallOptionInspect ==
    /\ OnShape("option")
    /\ LET r == Option_inspect(opts.self)
       IN  last' = ResCall("Option.inspect", Undefined, r.ret.opt, r.calls, FALSE)

CallIsSomeAnd ==
    /\ OnShape("option")
    /\ \E predicate \in Predicates :
          LET r == isSomeAnd(opts.self, predicate)
          IN  last' = ResCall("isSomeAnd", predicate, r.ret, r.calls, FALSE)

CallZipWith ==
    /\ OnShape("option")
    /\ \E option \in OptionThunks, callback \in ZipFns :
          LET r == zipWith(opts.self, option, callback)
          IN  last' = ResCall("zipWith", option, r.ret.opt, r.calls, FALSE)

CallOptionOrElse ==
    /\ OnShape("option")
    /\ \E callback \in OptionThunks :
          LET r == Option_orElse(opts.self, callback)
          IN  last' = ResCall("Option.orElse", callback, r.ret.opt, r.calls, FALSE)

CallUnwrapOrElse ==
    /\ OnShape("option")
    /\ \E callback \in Thunks :
          LET r == unwrapOrElse(opts.self, callback)
          IN  last' = ResCall("unwrapOrElse", callback, r.ret, r.calls, FALSE)

CallOkOrElse ==
    /\ OnShape("option")
    /\ \E callback \in Thunks :
          LET r == okOrElse(opts.self, callback)
          IN  last' = ResCall("okOrElse", callback, r.ret, r.calls, FALSE)

\* y.transpose() and y.transpose().transpose() on an Option<Result<U, E>>.
CallOptionTranspose ==
    /\ OnShape("optionOfResult")
    /\ LET once == Placed(Option_transpose(opts.self))
       IN  last' = ResCall("Option.transpose", Undefined,
                           [once |-> once, twice |-> Result_transpose(once)],
                           << >>, FALSE)

\* x.transpose() and x.transpose().transpose() on a Result<Option<U>, E>.
CallResultTranspose ==
    /\ OnShape("resultOfOption")
    /\ LET once == Result_transpose(opts.self)
       IN  last' = ResCall("Result.transpose", Undefined,
                           [once |-> once,
                            twice |-> Placed(Option_transpose(once))],
                           << >>, FALSE)

\* Every list of at most two arguments.
TeaArgs == UNION {[1..n -> Values] : n \in 0..2}

CallTeaCall ==
    /\ last.op = "none"
    /\ UNCHANGED <<innerMap, other, heap, gen, opts, kept>>
    /\ \E callbackFn \in TeaFns, args \in TeaArgs :
          LET r == teaCall(callbackFn, args)
          IN  last' = ResCall("teaCall", [callbackFn |-> callbackFn, args |-> args],
                              r.result, r.calls, r.raised)

ContinueResult ==
    /\ last.op # "none"
    /\ last' = NoResCall
    /\ UNCHANGED <<innerMap, other, heap, gen, opts, kept>>

NextResult ==
    \/ CallResultMap
    \/ CallResultMapErr
    \/ CallResultUnwrap
    \/ CallResultUnwrapErr
    \/ CallResultExpect
    \/ CallResultExpectErr
    \/ CallResultAndThen
    \/ CallResultOrElse
    \/ CallResultInspect
    \/ CallResultInspectErr
    \/ CallIsOkAnd
    \/ CallIsErrAnd
    \/ CallMapOnce
    \/ CallAndThenOnce
    \/ CallFilter
    \/ CallOptionInspect
    \/ CallIsSomeAnd
    \/ CallZipWith
    \/ CallOptionOrElse
    \/ CallUnwrapOrElse
    \/ CallOkOrElse
    \/ CallOptionTranspose
    \/ CallResultTranspose
    \/ CallTeaCall
    \/ ContinueResult

SpecResult == InitResult /\ [][NextResult]_vars

\* --------------------------------------------------------- Option.clone
\* undefined among the values of the clone section.
Undef == [kind |-> "undefined", at |-> 0]

\* option.ts clone: Ok(Some(structuredClone(this.value))), whatever the
\* receiver's discriminant, and Err(error) in the catch.
Option_clone(o, h) ==
    LET copy == structuredClone(o.value, h)
    IN  IF copy.threw THEN Returned(Err(copy.error), h)
        ELSE Returned(Ok(Some(copy.value)), copy.heap)

\* One Option o (opts), whose payload is a value of the clone section, and,
\* once o.clone() gave an Ok, its clone c (kept.opt) with what o was then:
\* its discriminant (kept.of) and its payload as a reader saw it (kept.was).
Cloned(held, opt, of, was) ==
    [held |-> held, opt |-> opt, of |-> of, was |-> was]

NoClone == Cloned(FALSE, [None EXCEPT !.value = Undef], "None", Deref(Undef, << >>))

OptionCloneCall(op, discriminant, error) ==
    [op |-> op, discriminant |-> discriminant, error |-> error]

\* The payloads a caller gives an Option, each with the heap it lives in.
Payloads(h) ==
    {[value |-> Num(n), heap |-> h] : n \in Contents}
      \cup {[value |-> Fn, heap |-> h], [value |-> Undef, heap |-> h]}
      \cup {[value |-> Obj(Alloc(h)), heap |-> [h EXCEPT ![Alloc(h)] = n]] :
               n \in Contents}

InitOptionClone ==
    /\ innerMap = NewCollection
    /\ other = NewCollection
    /\ gen = << >>
    /\ kept = NoClone
    /\ last = OptionCloneCall("none", "none", "")
    /\ \/ /\ opts = [None EXCEPT !.value = Undef]
          /\ heap = [addr \in Addrs |-> Unused]
       \/ \E payload \in Payloads([addr \in Addrs |-> Unused]) :
             /\ opts = Some(payload.value)
             /\ heap = payload.heap

OptionCloneFrame == UNCHANGED <<innerMap, other, gen>>

\* c = o.clone().unwrap(): the caller holds c when clone() gave an Ok.
CallCloneOption ==
    /\ last.op = "none"
    /\ ~kept.held
    /\ LET r == Option_clone(opts, heap)
       IN  /\ heap' = r.heap
           /\ last' = OptionCloneCall("clone", r.result.discriminant,
                                      IF isErr(r.result) THEN r.result.variant0
                                      ELSE "")
           /\ kept' = IF isOk(r.result)
                      THEN Cloned(TRUE, r.result.variant1, opts.discriminant,
                                  Deref(opts.value, heap))
                      ELSE kept
    /\ UNCHANGED opts
    /\ OptionCloneFrame

\* The heap once nothing holds the payload of o any more.
Dropped(o, h) ==
    IF o.value.kind = "object" THEN [h EXCEPT ![o.value.at] = Unused] ELSE h

\* o.insert(value), before or after the clone is taken.
CallInsertCloned ==
    /\ last.op = "none"
    /\ \E payload \in Payloads(Dropped(opts, heap)) :
          /\ opts' = Option_insert(opts, payload.value).self
          /\ heap' = payload.heap
    /\ last' = OptionCloneCall("insert", "none", "")
    /\ UNCHANGED kept
    /\ OptionCloneFrame

\* o.unwrap().bar = n on the object that o holds.
MutatePayload ==
    /\ last.op = "none"
    /\ isSome(opts)
    /\ opts.value.kind = "object"
    /\ \E n \in Contents :
          /\ heap[opts.value.at] # n
          /\ heap' = [heap EXCEPT ![opts.value.at] = n]
    /\ last' = OptionCloneCall("mutate", "none", "")
    /\ UNCHANGED <<opts, kept>>
    /\ OptionCloneFrame

ContinueOptionClone ==
    /\ last.op # "none"
    /\ last' = OptionCloneCall("none", "none", "")
    /\ UNCHANGED <<opts, kept, heap>>
    /\ OptionCloneFrame

NextOptionClone ==
    \/ CallCloneOption
    \/ CallInsertCloned
    \/ MutatePayload
    \/ ContinueOptionClone

SpecOptionClone == InitOptionClone /\ [][NextOptionClone]_vars

\* ------------------------------------------------- the Options a call shares
\* Three Option objects: the receiver of a combinator (this), the Option it
\* is given (arg) and one that the call constructs (new).  opts holds the
\* fields of each, and kept.ref tells which of them the caller got back.
\* Of a receiver Option<Result<U, E>> (shape "optionOfResult") the caller got
\* the Option of the Ok that transpose returned.
Shared(shape, this, arg, new) ==
    [shape |-> shape, this |-> this, arg |-> arg, new |-> new]

Got(held, ref) == [held |-> held, ref |-> ref]

ShareCall(op, pre) == [op |-> op, pre |-> pre]

NoShareCall == ShareCall("none", Shared("option", None, None, None))

InitShare ==
    /\ innerMap = NewCollection
    /\ other = NewCollection
    /\ heap = << >>
    /\ gen = << >>
    /\ kept = Got(FALSE, "new")
    /\ last = NoShareCall
    /\ \/ \E this \in OptionThunks, arg \in OptionThunks :
             opts = Shared("option", this, arg, None)
       \/ opts = Shared("optionOfResult", None, None, None)
       \/ \E value \in Values :
             \/ opts = Shared("optionOfResult", Some(Ok(value)), None, None)
             \/ opts = Shared("optionOfResult", Some(Err(value)), None, None)

\* The caller has called no combinator yet, and the receiver is of the shape.
Combining(shape) ==
    /\ last.op = "none"
    /\ ~kept.held
    /\ opts.shape = shape
    /\ UNCHANGED <<innerMap, other, heap, gen>>

\* The caller gets the Option back: the receiver object, the object it gave,
\* or a new one.
Returns(op, tag) ==
    /\ kept' = Got(TRUE, IF tag.same THEN "this"
                         ELSE IF tag.given THEN "arg" ELSE "new")
    /\ opts' = IF tag.same \/ tag.given THEN opts
               ELSE [opts EXCEPT !.new = tag.opt]
    /\ last' = ShareCall(op, opts)

CallMapShared ==
    /\ Combining("option")
    /\ \E callback \in MapFns :
          Returns("map", Option_map(opts.this, callback))

CallAndShared ==
    /\ Combining("option")
    /\ Returns("and", Option_and(opts.this, opts.arg))

CallAndThenShared ==
    /\ Combining("option")
    /\ \E callback \in ThenKinds :
          Returns("andThen", Fresh(andThen(opts.this, ThenFn(callback))))

CallOrShared ==
    /\ Combining("option")
    /\ Returns("or", Option_or(opts.this, opts.arg))

CallOrElseShared ==
    /\ Combining("option")
    /\ \E callback \in OptionThunks :
          Returns("orElse", Option_orElse(opts.this, callback).ret)

CallFilterShared ==
    /\ Combining("option")
    /\ \E predicate \in Predicates :
          Returns("filter", Option_filter(opts.this, predicate).ret)

CallXorShared ==
    /\ Combining("option")
    /\ Returns("xor", xor(opts.this, opts.arg))

CallZipShared ==
    /\ Combining("option")
    /\ Returns("zip", zip(opts.this, opts.arg))

\* this.transpose(): the caller gets the Option of an Ok, nothing of an Err.
CallTransposeShared ==
    /\ Combining("optionOfResult")
    /\ LET r == Option_transpose(opts.this)
       IN  IF isOk(r) THEN Returns("transpose", r.variant1)
           ELSE /\ last' = ShareCall("transpose", opts)
                /\ UNCHANGED <<opts, kept>>

Mutators == {"insert", "replace", "take", "getOrInsert", "getOrInsertWith"}

\* The fields of an Option after an in-place mutator.
Mutated(name, o, value) ==
    IF name = "insert" THEN Option_insert(o, value).self
    ELSE IF name = "replace" THEN Option_replace(o, value).self
    ELSE IF name = "take" THEN take(o).self
    ELSE IF name = "getOrInsert" THEN Option_getOrInsert(o, value).self
    ELSE Option_getOrInsertWith(o, value).self

\* The payloads of the type of the Option behind a reference.
PayloadsOf(shape) ==
    IF shape = "optionOfResult"
    THEN {Ok(value) : value \in Values} \cup {Err(value) : value \in Values}
    ELSE Values

\* An in-place mutator on the Option the caller got back from the call.
MutateReturned ==
    /\ last.op = "none"
    /\ kept.held
    /\ \E name \in Mutators, value \in Values :
          opts' = [opts EXCEPT ![kept.ref] = Mutated(name, opts[kept.ref], value)]
    /\ last' = ShareCall("mutateReturned", opts)
    /\ UNCHANGED <<innerMap, other, heap, gen, kept>>

\* An in-place mutator on the receiver, after the call.
MutateReceiver ==
    /\ last.op = "none"
    /\ kept.held
    /\ \E name \in Mutators, value \in PayloadsOf(opts.shape) :
          opts' = [opts EXCEPT !.this = Mutated(name, opts.this, value)]
    /\ last' = ShareCall("mutateReceiver", opts)
    /\ UNCHANGED <<innerMap, other, heap, gen, kept>>

ContinueShare ==
    /\ last.op # "none"
    /\ last' = NoShareCall
    /\ UNCHANGED <<innerMap, other, heap, gen, opts, kept>>

NextShare ==
    \/ CallMapShared
    \/ CallAndShared
    \/ CallAndThenShared
    \/ CallOrShared
    \/ CallOrElseShared
    \/ CallFilterShared
    \/ CallXorShared
    \/ CallZipShared
    \/ CallTransposeShared
    \/ MutateReturned
    \/ MutateReceiver
    \/ ContinueShare

SpecShare == InitShare /\ [][NextShare]_vars

\* ------------------------------------------ the Collections a call builds
\* What a call that builds a Collection gives: the entries of the Collection
\* it returns (coll), whether that is a newly constructed object ("new") or
\* the receiver object ("this"), and the receiver's entries after the call.
Built(coll, self) == [ref |-> "new", coll |-> coll, self |-> self]

\* for (const [key, value] of this.entries())
\*   if (predicate(value, key, this)) result.set(key, value)
RECURSIVE FilterLoop(_, _, _, _)
FilterLoop(m, i, predicate, result) ==
    IF i > Len(entries(m)) THEN result
    ELSE FilterLoop(m, i + 1, predicate,
                    IF Test(predicate, entries(m)[i][2])
                    THEN set(result, entries(m)[i][1], entries(m)[i][2])
                    ELSE result)

Collection_filter_in_place(m, predicate) ==
    [ref |-> "this", coll |-> FilterLoop(m, 1, predicate, NewCollection),
     self |-> FilterLoop(m, 1, predicate, NewCollection)]

Collection_filter(m, predicate) ==
    Built(FilterLoop(m, 1, predicate, NewCollection), m)

\* for (const [key, value] of this.entries())
\*   result.set(key, callback(value, key, this))
RECURSIVE MapLoop(_, _, _, _)
MapLoop(m, i, callback, result) ==
    IF i > Len(entries(m)) THEN result
    ELSE MapLoop(m, i + 1, callback,
                 set(result, entries(m)[i][1], Apply(callback, entries(m)[i][2])))

Collection_map(m, callback) == Built(MapLoop(m, 1, callback, NewCollection), m)

\* Three Collection objects: the receiver (this, innerMap), the operand (arg,
\* other) and the one a call constructs (new, heap); kept.ref tells which of
\* them the caller got back from the call.
Colls == [this |-> innerMap, arg |-> other, new |-> heap]

FrameCall(op, via, pre) == [op |-> op, via |-> via, pre |-> pre]

Builders == {"from", "diff", "symDiff", "intersect", "union", "filter", "map"}

InitFrame ==
    /\ innerMap \in Operands
    /\ other \in Operands
    /\ heap = NewCollection
    /\ gen = << >>
    /\ opts = << >>
    /\ kept = Got(FALSE, "new")
    /\ last = FrameCall("none", "none", [this |-> innerMap, arg |-> other,
                                         new |-> NewCollection])

\* The call returns: the receiver is as the call left it, and the caller
\* holds the Collection it got.
Gives(op, built) ==
    /\ innerMap' = built.self
    /\ heap' = IF built.ref = "new" THEN built.coll ELSE heap
    /\ kept' = Got(TRUE, built.ref)
    /\ last' = FrameCall(op, "call", Colls)
    /\ UNCHANGED <<other, gen, opts>>

\* The call throws: the caller gets nothing.
Fails(op) ==
    /\ last' = FrameCall(op, "threw", Colls)
    /\ UNCHANGED <<innerMap, other, heap, gen, opts, kept>>

\* Collection.from(this), as union calls it.
CallFromFramed ==
    /\ last.op = "none"
    /\ Gives("from", Built(from(entries(innerMap)), innerMap))

CallDiffFramed ==
    /\ last.op = "none"
    /\ Gives("diff", Built(diff(innerMap, other), innerMap))

CallSymDiffFramed ==
    /\ last.op = "none"
    /\ Gives("symDiff", Built(symDiff(innerMap, other), innerMap))

CallIntersectFramed ==
    /\ last.op = "none"
    /\ \E r \in Resolvers :
          LET out == intersect(innerMap, other, r)
          IN  IF out.threw THEN Fails("intersect")
              ELSE Gives("intersect", Built(out.coll, innerMap))

CallUnionFramed ==
    /\ last.op = "none"
    /\ \E r \in Resolvers :
          LET out == union(innerMap, other, r)
          IN  IF out.threw THEN Fails("union")
              ELSE Gives("union", Built(out.coll, innerMap))

CallFilterFramed ==
    /\ last.op = "none"
    /\ \E predicate \in Predicates :
          Gives("filter", Collection_filter(innerMap, predicate))

CallMapFramed ==
    /\ last.op = "none"
    /\ \E callback \in MapFns :
          Gives("map", Collection_map(innerMap, callback))

\* The entries of each Collection object once the one behind ref has become m.
Stores(ref, m) ==
    /\ innerMap' = IF ref = "this" THEN m ELSE innerMap
    /\ other' = IF ref = "arg" THEN m ELSE other
    /\ heap' = IF ref = "new" THEN m ELSE heap
    /\ UNCHANGED <<gen, opts, kept>>

\* The references a caller changes a Collection by after the call: the one
\* it got back, and the two operands.
Vias == {"returned", "this", "arg"}

RefOfVia(via) == IF via = "returned" THEN kept.ref ELSE via

Changing(op, via) == last' = FrameCall(op, via, Colls)

CallSetFramed ==
    /\ last.via = "call"
    /\ \E via \in Vias, key \in SetKeys, value \in Values :
          /\ Changing("set", via)
          /\ Stores(RefOfVia(via), set(Colls[RefOfVia(via)], key, value))

CallDeleteFramed ==
    /\ last.via = "call"
    /\ \E via \in Vias, key \in SetKeys :
          /\ Changing("delete", via)
          /\ Stores(RefOfVia(via), delete(Colls[RefOfVia(via)], key).map)

CallClearFramed ==
    /\ last.via = "call"
    /\ \E via \in Vias :
          /\ Changing("clear", via)
          /\ Stores(RefOfVia(via), clear(Colls[RefOfVia(via)]))

NextFrame ==
    \/ CallFromFramed
    \/ CallDiffFramed
    \/ CallSymDiffFramed
    \/ CallIntersectFramed
    \/ CallUnionFramed
    \/ CallFilterFramed
    \/ CallMapFramed
    \/ CallSetFramed
    \/ CallDeleteFramed
    \/ CallClearFramed

SpecFrame == InitFrame /\ [][NextFrame]_vars

\* ------------------------------------------------- the Option properties
\* C14: unwrap() and expect(msg) on a Some return its payload; on a None,
\* unwrap() throws and expect(msg) throws an error whose message is msg.
\* This holds for the constructed Option and for every Option that insert,
\* replace, take, getOrInsert and getOrInsertWith left or returned.
C14_UnwrapExpect ==
    /\ last.op = "unwrap" =>
          IF last.pre.discriminant = "Some"
          THEN last.ret = Return(last.pre.value)
          ELSE last.ret.threw
    /\ last.op = "expect" =>
          IF last.pre.discriminant = "Some"
          THEN last.ret = Return(last.pre.value)
          ELSE last.ret = Throw(last.arg)

\* expect(msg) threw msg on the receiver that take() emptied, while the
\* caller still holds the Some that take() returned.
C14_Witness ==
    /\ last.op = "expect"
    /\ last.ref = Receiver
    /\ last.ret.threw
    /\ last.ret.error = last.arg
    /\ kept.op = "take"
    /\ kept.was.discriminant = "Some"

\* C15: every Option object is, at every moment, exactly one of Some and
\* None: isSome() and isNone() never agree.  Some(v) is a Some and None() is
\* a None, whatever v is.
C15_SomeXorNone ==
    /\ \A id \in OptionIds :
          opts[id].discriminant # "Free" => isSome(opts[id]) # isNone(opts[id])
    /\ last.op = "Some" => isSome(opts[Receiver]) /\ ~isNone(opts[Receiver])
    /\ last.op = "None" => isNone(opts[Receiver]) /\ ~isSome(opts[Receiver])

\* getOrInsert(undefined) made a None receiver a Some holding undefined,
\* while the caller holds a None that an earlier call returned.
C15_Witness ==
    /\ last.op = "getOrInsert"
    /\ last.pre.discriminant = "None"
    /\ opts[Receiver] = Some(Undefined)
    /\ isSome(opts[Receiver])
    /\ kept.ref \notin {NoRef, Receiver}
    /\ isNone(opts[kept.ref])

\* C16: x.take() returns an Option equal to what x was before the call and
\* leaves x a None.  The returned Option is an object of its own: whatever
\* is done to x afterwards, it stays what take() returned.
C16_Take ==
    /\ last.op = "take" =>
          /\ last.ref # Receiver
          /\ opts[last.ref] = last.pre
          /\ opts[Receiver] = None
    /\ kept.op = "take" =>
          /\ kept.ref # Receiver
          /\ opts[kept.ref] = kept.was

\* The caller holds the Some that take() returned and has since written
\* another value into x.
C16_Witness ==
    /\ kept.op = "take"
    /\ kept.was.discriminant = "Some"
    /\ last.op \in {"insert", "replace", "getOrInsert"}
    /\ last.pre = None
    /\ opts[Receiver].discriminant = "Some"
    /\ opts[Receiver].value # kept.was.value
    /\ opts[kept.ref] = kept.was

\* C17: x.replace(v) returns an Option equal to what x was before the call
\* and leaves x a Some holding v.
C17_Replace ==
    last.op = "replace" =>
        /\ opts[last.ref] = last.pre
        /\ opts[Receiver] = Some(last.arg)

\* replace(v) on a Some holding another value than v returned the old Some.
C17_Witness ==
    /\ last.op = "replace"
    /\ last.pre.discriminant = "Some"
    /\ last.pre.value # last.arg
    /\ opts[last.ref] = last.pre
    /\ opts[Receiver].value = last.arg

\* C18: x.insert(v) leaves x a Some holding v and returns v, whatever x
\* was.  x.getOrInsert(v) and x.getOrInsertWith(f) leave x a Some: a Some
\* keeps its payload, which is returned, and f is not called; a None gets v,
\* or what the one call of f returned, which is returned.
C18_Insert ==
    /\ last.op = "insert" =>
          /\ opts[Receiver] = Some(last.arg)
          /\ last.ret = last.arg
    /\ last.op \in {"getOrInsert", "getOrInsertWith"} =>
          /\ isSome(opts[Receiver])
          /\ IF last.pre.discriminant = "Some"
             THEN /\ opts[Receiver] = last.pre
                  /\ last.ret = last.pre.value
                  /\ last.calls = 0
             ELSE /\ opts[Receiver] = Some(last.arg)
                  /\ last.ret = last.arg
                  /\ last.calls = IF last.op = "getOrInsertWith" THEN 1 ELSE 0

\* getOrInsert(v) on a Some holding undefined kept undefined and returned it.
C18_Witness ==
    /\ last.op = "getOrInsert"
    /\ last.pre = Some(Undefined)
    /\ last.arg # Undefined
    /\ last.ret = Undefined
    /\ opts[Receiver] = Some(Undefined)

\* C19: o.map((x) => x) equals o, a Some of any payload or a None: the same
\* discriminant and the same payload.
C19_MapIdentity ==
    (last.op = "map" /\ last.arg = "id") => opts[last.ref] = last.pre

\* map((x) => x) on a Some returned a new Some with the same payload.
C19_Witness ==
    /\ last.op = "map"
    /\ last.arg = "id"
    /\ last.pre.discriminant = "Some"
    /\ last.pre.value # Undefined
    /\ last.ref # Receiver
    /\ opts[last.ref] = last.pre

\* C20: o.andThen(f).andThen(g) equals o.andThen((x) => f(x).andThen(g)) for
\* every Option o and all callbacks f and g: the same discriminant and the
\* same payload.
C20_AndThenAssociative ==
    last.op = "andThen" => last.ret.left = last.ret.right

\* Both sides are the same Some, reached through two different callbacks
\* of which the first changes the payload.
C20_Witness ==
    /\ last.op = "andThen"
    /\ last.arg = <<"next", "defined">>
    /\ isSome(last.ret.left)
    /\ last.ret.left.value # last.pre.value
    /\ last.ret.left = last.ret.right

\* ---------------------------------------------------- the iter property
\* C13: on a collection of n entries that is not changed meanwhile, the
\* i-th next() on the iterator that iter() returned gives the i-th entry in
\* insertion order, wrapped in Some, with done = false, for i = 1..n; the
\* (n+1)-th gives None with done = true.  With n = 0 that is the first.
C13_Iter ==
    (gen.state # "none" /\ ~gen.changed) =>
        \A i \in 1..Len(gen.out) :
            /\ i <= Len(gen.at) =>
                  /\ ~gen.out[i].done
                  /\ gen.out[i].value.discriminant = "Some"
                  /\ gen.out[i].value.value = gen.at[i]
            /\ i = Len(gen.at) + 1 =>
                  /\ gen.out[i].done
                  /\ gen.out[i].value = None

\* An iterator over two or more entries was run to its end.
C13_Witness ==
    /\ gen.state = "closed"
    /\ ~gen.changed
    /\ Len(gen.at) >= 2
    /\ gen.at = entries(innerMap)
    /\ Len(gen.out) = Len(gen.at) + 1
    /\ gen.out[1].value = Some(gen.at[1])
    /\ gen.out[Len(gen.out)].done

\* ------------------------------------------- the clone and toJSON properties
Copyable(view) == \A i \in 1..Len(view) : view[i][2].kind # "function"

Serializable(view) == \A i \in 1..Len(view) : view[i][2].kind # "bigint"

\* C11: after b = a.clone().unwrap(), b has the keys of a in the order of a
\* and under each a value equal to a's.  From then on a call on a (set,
\* delete, clear, or a write to an object a holds) leaves every entry of b
\* as it was, and a call on b leaves every entry of a as it was.
C11_CloneIndependent ==
    [][/\ (last'.op = "clone" /\ last'.ret.discriminant = "Ok") =>
              /\ kept' = "b"
              /\ View(other', heap') = View(innerMap', heap')
       /\ (kept = "b" /\ last'.op \in {"set", "delete", "clear", "mutate"}) =>
              IF last'.on = "a"
              THEN View(other', heap') = View(other, heap)
              ELSE View(innerMap', heap') = View(innerMap, heap)]_vars

\* The caller wrote to an object that a holds after the clone, and under
\* the same key b still holds an object with another content.
C11_Witness ==
    /\ kept = "b"
    /\ last.op = "mutate"
    /\ last.on = "a"
    /\ \E i \in 1..Len(innerMap) :
          /\ i <= Len(other)
          /\ innerMap[i][1] = other[i][1]
          /\ innerMap[i][2].kind = "object"
          /\ other[i][2].kind = "object"
          /\ heap[innerMap[i][2].at] # heap[other[i][2].at]

\* C12: clone() and toJSON() return and never raise: Ok when every value
\* can be copied, or written, and else Err holding what structuredClone, or
\* JSON.stringify, threw.  Either way the entries of the collection they
\* were called on are as before the call.
C12_NeverRaise ==
    [][last'.op \in {"clone", "toJSON"} =>
          /\ ~last'.ret.raised
          /\ IF last'.on = "a"
             THEN View(innerMap', heap') = View(innerMap, heap)
             ELSE View(other', heap') = View(other, heap)
          /\ last'.op = "clone" =>
                IF Copyable(View(innerMap, heap))
                THEN last'.ret.discriminant = "Ok"
                ELSE /\ last'.ret.discriminant = "Err"
                     /\ last'.ret.error = "DataCloneError"
          /\ last'.op = "toJSON" =>
                IF Serializable(View(Stored(last'.on), heap))
                THEN last'.ret.discriminant = "Ok"
                ELSE /\ last'.ret.discriminant = "Err"
                     /\ last'.ret.error = "TypeError"]_vars

\* clone() gave an Err on a collection whose second value is a function,
\* after it had copied the object that is its first value.
C12_Witness ==
    /\ last.op = "clone"
    /\ ~last.ret.raised
    /\ last.ret.discriminant = "Err"
    /\ last.ret.error = "DataCloneError"
    /\ kept = "none"
    /\ Len(innerMap) = 2
    /\ innerMap[1][2].kind = "object"
    /\ innerMap[2][2].kind = "function"

\* ------------------------------------------------- the Result properties
\* Equality of two Results of plain payloads, of two Options of Results and
\* of two Results of Options, variant by variant.
SameResult(x, y) ==
    /\ x.discriminant = y.discriminant
    /\ IF isOk(x) THEN x.variant1 = y.variant1 ELSE x.variant0 = y.variant0

SameOptionOfResult(x, y) ==
    /\ x.discriminant = y.discriminant
    /\ isSome(x) => SameResult(x.value, y.value)

SameResultOfOption(x, y) ==
    /\ x.discriminant = y.discriminant
    /\ IF isOk(x)
       THEN /\ x.variant1.discriminant = y.variant1.discriminant
            /\ x.variant1.value = y.variant1.value
       ELSE x.variant0 = y.variant0

\* C21: transpose maps None to Ok(None), Some(Ok(u)) to Ok(Some(u)) and
\* Some(Err(e)) to Err(e), and back; transposing twice gives a value equal to
\* the one started from, for every Option<Result> and every Result<Option>.
C21_TransposeInvolution ==
    /\ last.op = "Option.transpose" =>
          /\ SameOptionOfResult(last.ret.twice, opts.self)
          /\ IF isNone(opts.self)
             THEN SameResultOfOption(last.ret.once, Ok(None))
             ELSE IF isOk(opts.self.value)
                  THEN SameResultOfOption(last.ret.once,
                                          Ok(Some(opts.self.value.variant1)))
                  ELSE SameResultOfOption(last.ret.once,
                                          Err(opts.self.value.variant0))
    /\ last.op = "Result.transpose" =>
          /\ SameResultOfOption(last.ret.twice, opts.self)
          /\ IF isErr(opts.self)
             THEN SameOptionOfResult(last.ret.once, Some(Err(opts.self.variant0)))
             ELSE IF isSome(opts.self.variant1)
                  THEN SameOptionOfResult(last.ret.once,
                                          Some(Ok(opts.self.variant1.value)))
                  ELSE SameOptionOfResult(last.ret.once, None)

C21_Witness ==
    /\ last.op = "Option.transpose"
    /\ isSome(opts.self)
    /\ isErr(opts.self.value)
    /\ isErr(last.ret.once)
    /\ isSome(last.ret.twice)

\* C22: Ok(v).map(f) is Ok(f(v)) and Err(e).map(f) is Err(e); Err(e).mapErr(g)
\* is Err(g(e)) and Ok(v).mapErr(g) is Ok(v); the variant of the result is the
\* variant of the receiver.
C22_MapKeepsVariant ==
    /\ last.op \in {"map", "mapErr"} =>
          last.ret.discriminant = opts.self.discriminant
    /\ last.op = "map" =>
          IF isOk(opts.self)
          THEN SameResult(last.ret, Ok(Apply(last.arg, opts.self.variant1)))
          ELSE SameResult(last.ret, Err(opts.self.variant0))
    /\ last.op = "mapErr" =>
          IF isErr(opts.self)
          THEN SameResult(last.ret, Err(Apply(last.arg, opts.self.variant0)))
          ELSE SameResult(last.ret, Ok(opts.self.variant1))

C22_Witness ==
    /\ last.op = "map"
    /\ last.arg = "next"
    /\ isErr(opts.self)
    /\ opts.self.variant0 = 1
    /\ isErr(last.ret)

\* C23: unwrap and expect return the Ok payload of an Ok and fail on an Err;
\* unwrapErr and expectErr return the Err payload of an Err and fail on an
\* Ok; expect and expectErr fail with the caller's message; no call returns
\* the payload of the other variant.
C23_ResultUnwrap ==
    /\ last.op \in {"unwrap", "expect"} =>
          IF isOk(opts.self)
          THEN ~last.ret.threw /\ last.ret.value = opts.self.variant1
          ELSE last.ret.threw
    /\ last.op \in {"unwrapErr", "expectErr"} =>
          IF isErr(opts.self)
          THEN ~last.ret.threw /\ last.ret.value = opts.self.variant0
          ELSE last.ret.threw
    /\ last.op \in {"expect", "expectErr"} =>
          (last.ret.threw => last.ret.error = last.arg)

C23_Witness ==
    /\ last.op = "expect"
    /\ isErr(opts.self)
    /\ last.ret.threw
    /\ last.ret.error = "foo"

\* C24: teaCall(f, ...args) calls f once, with args, and never raises; it
\* returns Ok(f(...args)) when f returns and Err(x) when f throws x.
C24_TeaCall ==
    last.op = "teaCall" =>
        /\ ~last.raised
        /\ last.calls = <<last.arg.args>>
        /\ LET result == CallFn(last.arg.callbackFn, last.arg.args)
           IN  IF result.threw
               THEN SameResult(last.ret, Err(result.value))
               ELSE SameResult(last.ret, Ok(result.value))

C24_Witness ==
    /\ last.op = "teaCall"
    /\ last.arg.callbackFn = "throwFirst"
    /\ Len(last.arg.args) = 2
    /\ isErr(last.ret)
    /\ last.ret.variant0 = 1

\* The combinators that are to call their callback on a Some, on an Ok, on a
\* None and on an Err.
OnSome == {"Option.map", "Option.andThen", "filter", "Option.inspect", "isSomeAnd"}
OnOk == {"map", "andThen", "inspect", "isOkAnd"}
OnNone == {"Option.orElse", "unwrapOrElse", "okOrElse"}
OnErr == {"orElse", "mapErr", "inspectErr", "isErrAnd"}

\* The combinators other than zipWith: one call with the payload on a Some
\* or an Ok, none on a None or an Err, which is what then comes back (false
\* from a predicate); and the others call only on a None or an Err.
CalledWhenHeld ==
    /\ last.op \in OnSome =>
          IF isSome(opts.self)
          THEN last.calls = <<<<opts.self.value>>>>
          ELSE /\ last.calls = << >>
               /\ IF last.op = "isSomeAnd" THEN last.ret = FALSE
                  ELSE isNone(last.ret)
    /\ last.op \in OnOk =>
          IF isOk(opts.self)
          THEN last.calls = <<<<opts.self.variant1>>>>
          ELSE /\ last.calls = << >>
               /\ IF last.op = "isOkAnd" THEN last.ret = FALSE
                  ELSE SameResult(last.ret, opts.self)
    /\ last.op \in OnNone => (last.calls # << >> => isNone(opts.self))
    /\ last.op \in OnErr => (last.calls # << >> => isErr(opts.self))

\* C25 as stated: zipWith too calls its callback once, with the payload,
\* whenever the receiver is a Some.
C25_CalledWhenReceiverHolds ==
    /\ CalledWhenHeld
    /\ last.op = "zipWith" =>
          IF isSome(opts.self)
          THEN Len(last.calls) = 1 /\ last.calls[1][1] = opts.self.value
          ELSE last.calls = << >> /\ isNone(last.ret)

\* C25: the combinators call their callback only when the precondition holds:
\* once with the payload on a Some or an Ok and never on a None or an Err
\* (orElse, unwrapOrElse, okOrElse, mapErr, inspectErr, isErrAnd: only on a
\* None or an Err); zipWith calls it once, with both payloads, when the
\* receiver and the other Option are both Some, and never otherwise, returning
\* None.
C25_CalledWhenHeld ==
    /\ CalledWhenHeld
    /\ last.op = "zipWith" =>
          IF isSome(opts.self) /\ isSome(last.arg)
          THEN last.calls = <<<<opts.self.value, last.arg.value>>>>
          ELSE last.calls = << >> /\ isNone(last.ret)

C25_Witness ==
    /\ last.op = "zipWith"
    /\ isSome(opts.self)
    /\ isNone(last.arg)
    /\ last.calls = << >>
    /\ isNone(last.ret)

\* ------------------------------------- the Collection properties, continued
\* C26: apart from unwrap and expect on the wrong variant and from the
\* exceptions of the caller's callbacks, no operation raises; here: no call of
\* diff, symDiff, intersect or union, with a resolver that never throws, on
\* collections holding any storable values.
C26_NoOperationRaises ==
    last.op \in {"diff", "symDiff", "intersect", "union"} => ~last.threw

\* C29: in every reachable state of a collection, get(k).isSome() holds
\* exactly when has(k) holds, for every key k.
C29_GetAgreesWithHas ==
    \A k \in Keys : isSome(get(innerMap, k)) <=> has(innerMap, k)

\* ----------------------------------------------- the Option.clone property
\* C27: for an Option o of a cloneable payload, o.clone() is Ok(c), where c
\* has the discriminant of o (a None clones to a None, a Some(v) to a Some(v')
\* with v' equal to v), and changing o or the payload of o afterwards does
\* not change c.
C27_OptionClone ==
    /\ last.op = "clone" /\ opts.value.kind # "function" =>
          last.discriminant = "Ok" /\ kept.held
    /\ kept.held =>
          /\ kept.opt.discriminant = kept.of
          /\ Deref(kept.opt.value, heap) = kept.was

\* ------------------------------------------------- the sharing property
\* Two Options of which none changed into the other: the same discriminant
\* and the same payload.
SameOption(x, y) ==
    /\ x.discriminant = y.discriminant
    /\ x.value = y.value

\* C28: the Option that map, and, andThen, or, orElse, filter, xor, zip or
\* transpose returned is a new value: an in-place mutator on it changes
\* neither the receiver nor the Option given as argument, and an in-place
\* mutator on the receiver does not change it.
C28_ReturnedIsNew ==
    /\ last.op = "mutateReturned" =>
          /\ SameOption(opts.this, last.pre.this)
          /\ SameOption(opts.arg, last.pre.arg)
    /\ last.op = "mutateReceiver" =>
          SameOption(opts[kept.ref], last.pre[kept.ref])

====
